---- MODULE Spec2Model ----
(***************************************************************************)
(* Model of the visualization pipeline of src/src/services/viz_service.py: *)
(* apply_filters, aggregate_if_needed and build_figure, over tables and    *)
(* proposals as src/src/models/viz_spec.py declares them.                  *)
(*                                                                         *)
(* A table is [cols, rows]: the sequence of column names and the sequence  *)
(* of rows, a row being a function from the column names to cells.  A cell *)
(* is [k, s, n, d]: a string s (k = "str"), the number n/d (k = "num") or  *)
(* the missing value NaN (k = "null").  Reduced values (mean, median) are  *)
(* exact fractions in lowest terms.                                        *)
(*                                                                         *)
(* Further sections model the construction of a Proposal from a raw record *)
(* (pydantic validation, src/src/models/viz_spec.py), proposal generation  *)
(* with its retry loops and provider fallback (src/src/services/           *)
(* llm_service.py, claude_service.py, llm_router.py), and the extraction   *)
(* of JSON from an LLM response (claude_service.extract_json_from_response *)
(* and src/src/utils/json_tools.py), a response being a sequence of tokens.*)
(*                                                                         *)
(* The last sections model the execution of generated snippets             *)
(* (src/src/services/execution_service.py), get_config_value of            *)
(* src/src/config.py, the render loop and the report of src/app.py with    *)
(* create_dashboard_html and controller.get_html_dashboard, and the        *)
(* session state of the app across script runs.                            *)
(***************************************************************************)
EXTENDS Integers, Sequences, FiniteSets, TLC

VARIABLES df, spec, pc, call, ret, raw, text, cfg, replies, log, result,
          session

vars ==
    <<df, spec, pc, call, ret, raw, text, cfg, replies, log, result, session>>

\* What the visualization functions never touch: the raw record a Proposal
\* is built from, an LLM response text, the settings, what the LLM backends
\* answer, the LLM calls made, the value a non-visualization call returns,
\* and the session state of the app.
llm_vars == <<raw, text, cfg, replies, log, result, session>>

\* ---------------------------------------------------------------- bounds
\* Most rows of a table.
MaxRows == 2
\* Most filters of a proposal.
MaxFilters == 2

\* ---------------------------------------------------------------- cells
None == "<None>"

Null == [k |-> "null", s |-> "", n |-> 0, d |-> 1]
Str(s) == [k |-> "str", s |-> s, n |-> 0, d |-> 1]
Num(n) == [k |-> "num", s |-> "", n |-> n, d |-> 1]

Abs(i) == IF i < 0 THEN -i ELSE i

RECURSIVE GCD(_, _)
GCD(a, b) == IF b = 0 THEN a ELSE GCD(b, a % b)

\* The number n/d in lowest terms (d > 0).
Frac(n, d) ==
    LET g == GCD(Abs(n), d)
    IN  [k |-> "num", s |-> "", n |-> n \div g, d |-> d \div g]

\* Lexicographic rank of the strings the tables hold.
StrRank(s) ==
    CASE s = "Action" -> 1
      [] s = "Comedy" -> 2
      [] OTHER -> 0

IsNull(c) == c.k = "null"

\* Python's ordering of two non-null cells of the same kind.
CellLess(a, b) ==
    IF a.k = "num" THEN a.n * b.d < b.n * a.d ELSE StrRank(a.s) < StrRank(b.s)

\* Python's == of two non-null cells (a str never equals a number).
CellEq(a, b) == a.k = b.k /\ (IF a.k = "num" THEN a.n * b.d = b.n * a.d ELSE a.s = b.s)

\* ---------------------------------------------------------------- tables
\* The dataset's columns and their pandas dtypes: genre is an object
\* column (strings, NaN), revenue a float64 column, year an int64 column.
Columns == <<"genre", "revenue", "year">>

DType(c) == IF c = "genre" THEN "object" ELSE "number"

Range(s) == {s[i] : i \in 1..Len(s)}

ColSet(t) == Range(t.cols)

GenreCells == {Str("Action"), Str("Comedy"), Null}
RevenueCells == {Num(100), Num(120), Null}
YearCells == {Num(2020)}

RowSet ==
    {[c \in Range(Columns) |->
        CASE c = "genre" -> g [] c = "revenue" -> r [] OTHER -> y] :
        g \in GenreCells, r \in RevenueCells, y \in YearCells}

SeqsUpTo(S, n) == UNION {[1..m -> S] : m \in 0..n}

Tables == {[cols |-> Columns, rows |-> rs] : rs \in SeqsUpTo(RowSet, MaxRows)}

\* A call's outcome: the returned table, or the exception raised.
Ok(t) == [err |-> "none", data |-> t]
Raise(e) == [err |-> e, data |-> [cols |-> <<>>, rows |-> <<>>]]

\* ---------------------------------------------------------------- proposals
ChartType == {"bar", "line", "scatter", "box", "hist", "heatmap"}
AggType == {"mean", "sum", "count", "median", "none"}
SortType == {None, "asc", "desc"}
FilterOp == {"==", "!=", ">", "<", "in"}

\* FilterSpec.value: a scalar, or a list of scalars (for any op).
Scalar(c) == [list |-> FALSE, items |-> <<c>>]
List(cs) == [list |-> TRUE, items |-> cs]

FilterSpec(col, op, value) == [col |-> col, op |-> op, value |-> value]

FormattingSpec(x_label, y_label, sort, top_k) ==
    [x_label |-> x_label, y_label |-> y_label, sort |-> sort, top_k |-> top_k]

\* FormattingSpec.top_k: Field(default=20, ge=1, le=200)
TopKDefault == 20
TopKMin == 1
TopKMax == 200

Proposal(chart_type, x, y, color, aggregation, filters, formatting) ==
    [id |-> 1, title |-> "Test", chart_type |-> chart_type, x |-> x, y |-> y,
     color |-> color, aggregation |-> aggregation, filters |-> filters,
     reasoning |-> "r", formatting |-> formatting]

\* ---------------------------------------------------------------- pandas
\* The column of a table as a sequence of cells: data[col].
Column(t, c) == [i \in 1..Len(t.rows) |-> t.rows[i][c]]

\* One elementwise comparison `cell op v`, v not NaN: "T", "F", or "E"
\* when Python raises TypeError.  NaN compares False, except under !=.
ElemCmp(cell, op, v) ==
    IF IsNull(cell) THEN (IF op = "!=" THEN "T" ELSE "F")
    ELSE IF cell.k = v.k THEN
        CASE op = "==" -> IF CellEq(cell, v) THEN "T" ELSE "F"
          [] op = "!=" -> IF CellEq(cell, v) THEN "F" ELSE "T"
          [] op = ">"  -> IF CellLess(v, cell) THEN "T" ELSE "F"
          [] OTHER     -> IF CellLess(cell, v) THEN "T" ELSE "F"
    ELSE
        CASE op = "==" -> "F"
          [] op = "!=" -> "T"
          [] OTHER     -> "E"

\* data[col] op value for op in ==, !=, >, <: the boolean mask, or the
\* exception.  A list is compared position by position and must be as long
\* as the column ("Lengths must match to compare"); an ordering between a
\* numeric column and a string is invalid whatever the rows are; an object
\* column is compared cell by cell.
SeriesCmp(t, c, op, value) ==
    LET col == Column(t, c)
        n == Len(col)
        rhs(i) == IF value.list THEN value.items[i] ELSE value.items[1]
        cmp == [i \in 1..n |-> ElemCmp(col[i], op, rhs(i))]
        strs == \E j \in 1..Len(value.items) : value.items[j].k = "str"
    IN  IF value.list /\ Len(value.items) # n
        THEN [err |-> "ValueError", mask |-> <<>>]
        ELSE IF DType(c) = "number" /\ strs /\ op \in {">", "<"}
        THEN [err |-> "TypeError", mask |-> <<>>]
        ELSE IF \E i \in 1..n : cmp[i] = "E"
        THEN [err |-> "TypeError", mask |-> <<>>]
        ELSE [err |-> "none", mask |-> [i \in 1..n |-> cmp[i] = "T"]]

\* data[col].isin(vals): NaN matches no (non-NaN) value, no error is raised.
SeriesIsin(t, c, vals) ==
    LET col == Column(t, c)
    IN  [err |-> "none",
         mask |-> [i \in 1..Len(col) |->
                     /\ ~IsNull(col[i])
                     /\ \E j \in 1..Len(vals) : CellEq(col[i], vals[j])]]

RECURSIVE SelectIdx(_, _, _)
SelectIdx(rows, mask, i) ==
    IF i > Len(rows) THEN <<>>
    ELSE (IF mask[i] THEN <<rows[i]>> ELSE <<>>) \o SelectIdx(rows, mask, i + 1)

\* data[mask]: the rows whose mask is True, in order, same columns.
BoolIndex(t, mask) == [cols |-> t.cols, rows |-> SelectIdx(t.rows, mask, 1)]

\* df.copy(): a new frame with the same columns and rows.
Copy(t) == [cols |-> t.cols, rows |-> t.rows]

\* ---------------------------------------------------------------- apply_filters
\* One iteration of the loop over spec.filters.
FilterMask(data, f) ==
    IF f.op = "in"
    THEN SeriesIsin(data, f.col, f.value.items)
    ELSE SeriesCmp(data, f.col, f.op, f.value)

\* The loop without the test `if f.col not in data.columns`: data[f.col]
\* raises KeyError for a column the frame does not have.
RECURSIVE FilterLoopNoSkip(_, _, _)
FilterLoopNoSkip(data, filters, i) ==
    IF i > Len(filters) THEN Ok(data)
    ELSE IF filters[i].col \notin ColSet(data)
    THEN Raise("KeyError")
    ELSE LET m == FilterMask(data, filters[i])
         IN  IF m.err # "none" THEN Raise(m.err)
             ELSE FilterLoopNoSkip(BoolIndex(data, m.mask), filters, i + 1)

RECURSIVE FilterLoop(_, _, _)
FilterLoop(data, filters, i) ==
    IF i > Len(filters) THEN Ok(data)
    ELSE IF filters[i].col \notin ColSet(data)
    THEN FilterLoop(data, filters, i + 1)
    ELSE LET m == FilterMask(data, filters[i])
         IN  IF m.err # "none" THEN Raise(m.err)
             ELSE FilterLoop(BoolIndex(data, m.mask), filters, i + 1)

apply_filters(df_, spec_) == FilterLoop(Copy(df_), spec_.filters, 1)

\* ---------------------------------------------------------------- aggregate_if_needed
RECURSIVE SortedKeys(_)
SortedKeys(S) ==
    IF S = {} THEN <<>>
    ELSE LET m == CHOOSE a \in S : \A b \in S : ~CellLess(b, a)
         IN  <<m>> \o SortedKeys(S \ {m})

\* groupby(x, dropna=False): NaN is a group key too.
GroupKeysKeepNaN(t, x) == SortedKeys(Range(Column(t, x)))

\* groupby(x) with the defaults sort=True, dropna=True: the distinct non-NaN
\* values of x, in ascending order.
GroupKeys(t, x) == SortedKeys({c \in Range(Column(t, x)) : ~IsNull(c)})

RECURSIVE GroupCells(_, _, _, _, _)
GroupCells(rows, x, y, key, i) ==
    IF i > Len(rows) THEN <<>>
    ELSE (IF rows[i][x] = key /\ ~IsNull(rows[i][y]) THEN <<rows[i][y]>> ELSE <<>>)
         \o GroupCells(rows, x, y, key, i + 1)

AddCells(a, b) == Frac(a.n * b.d + b.n * a.d, a.d * b.d)

RECURSIVE SumCells(_)
SumCells(cs) == IF cs = <<>> THEN Num(0) ELSE AddCells(Head(cs), SumCells(Tail(cs)))

RECURSIVE InsertAsc(_, _)
InsertAsc(sorted, c) ==
    IF sorted = <<>> THEN <<c>>
    ELSE IF CellLess(c, Head(sorted)) THEN <<c>> \o sorted
    ELSE <<Head(sorted)>> \o InsertAsc(Tail(sorted), c)

RECURSIVE SortCells(_)
SortCells(cs) ==
    IF cs = <<>> THEN <<>> ELSE InsertAsc(SortCells(SubSeq(cs, 1, Len(cs) - 1)), cs[Len(cs)])

\* The four reductions of a group's y cells; all of them skip NaN.  The
\* mean and the median of no value are NaN, the sum of no value is 0, and
\* count() is the number of non-NaN values.
Mean(cs) ==
    IF cs = <<>> THEN Null
    ELSE LET t == SumCells(cs) IN Frac(t.n, t.d * Len(cs))

\* .mean() in the place of .sum()
SumAsMean(cs) == Mean(cs)

Sum(cs) == SumCells(cs)

Median(cs) ==
    IF cs = <<>> THEN Null
    ELSE LET s == SortCells(cs)
             m == Len(s)
         IN  IF m % 2 = 1 THEN s[(m + 1) \div 2]
             ELSE LET t == AddCells(s[m \div 2], s[m \div 2 + 1])
                  IN  Frac(t.n, t.d * 2)

Count(cs) == Num(Len(cs))

Reduce(agg, cs) ==
    CASE agg = "mean" -> Mean(cs)
      [] agg = "sum" -> Sum(cs)
      [] agg = "median" -> Median(cs)
      [] OTHER -> Count(cs)

\* data.groupby(x, as_index=False)[y].<agg>(): one row per key, columns x, y.
GroupByAgg(t, x, y, agg) ==
    LET keys == GroupKeys(t, x)
    IN  [cols |-> <<x, y>>,
         rows |-> [i \in 1..Len(keys) |->
                     [c \in {x, y} |->
                        IF c = x THEN keys[i]
                        ELSE Reduce(agg, GroupCells(t.rows, x, y, keys[i], 1))]]]

\* The order with the `ascending` argument left at its default (True).
BeforeAscendingOnly(a, b, y, ascending) ==
    /\ ~IsNull(a[y])
    /\ (IsNull(b[y]) \/ CellLess(a[y], b[y]))

\* Whether row a must come before row b once sorted by y: NaN goes last in
\* both directions (na_position="last").
Before(a, b, y, ascending) ==
    /\ ~IsNull(a[y])
    /\ \/ IsNull(b[y])
       \/ IF ascending THEN CellLess(a[y], b[y]) ELSE CellLess(b[y], a[y])

RECURSIVE InsertRow(_, _, _, _)
InsertRow(sorted, r, y, ascending) ==
    IF sorted = <<>> THEN <<r>>
    ELSE IF Before(r, Head(sorted), y, ascending) THEN <<r>> \o sorted
    ELSE <<Head(sorted)>> \o InsertRow(Tail(sorted), r, y, ascending)

RECURSIVE SortRows(_, _, _)
SortRows(rows, y, ascending) ==
    IF rows = <<>> THEN <<>>
    ELSE InsertRow(SortRows(SubSeq(rows, 1, Len(rows) - 1), y, ascending),
                   rows[Len(rows)], y, ascending)

\* data.sort_values(y, ascending=...): NaN last; equal keys keep their order
\* (the default quicksort is an insertion sort on frames this small).
sort_values(t, y, ascending) == [cols |-> t.cols, rows |-> SortRows(t.rows, y, ascending)]

\* data.tail(n) in the place of data.head(n)
headAsTail(t, n) ==
    [cols |-> t.cols,
     rows |-> SubSeq(t.rows, (IF n < Len(t.rows) THEN Len(t.rows) - n ELSE 0) + 1,
                     Len(t.rows))]

\* data.head(n)
head(t, n) ==
    [cols |-> t.cols, rows |-> SubSeq(t.rows, 1, IF n < Len(t.rows) THEN n ELSE Len(t.rows))]

\* if spec.formatting.sort in ("asc", "desc")
SortStep(data, spec_) ==
    IF spec_.formatting.sort \in {"asc", "desc"}
    THEN sort_values(data, spec_.y, spec_.formatting.sort = "asc")
    ELSE data

\* if spec.formatting.top_k and len(data) > spec.formatting.top_k
TopKStep(data, spec_) ==
    IF spec_.formatting.top_k # 0 /\ Len(data.rows) > spec_.formatting.top_k
    THEN head(data, spec_.formatting.top_k)
    ELSE data

\* The guard without the test of the chart type.
AggregationAppliesAnyChart(spec_) ==
    /\ spec_.y # None /\ spec_.y # ""
    /\ spec_.aggregation # "none"

\* The guard of the aggregation branch; `spec.y` is false for None and "".
AggregationApplies(spec_) ==
    /\ spec_.chart_type \in {"bar", "line"}
    /\ spec_.y # None /\ spec_.y # ""
    /\ spec_.aggregation # "none"

\* The function without the test of the columns: groupby raises KeyError
\* for a column the frame does not have.
aggregate_if_needed_unchecked(df_, spec_) ==
    LET data == Copy(df_)
    IN  IF AggregationApplies(spec_)
        THEN IF spec_.x \notin ColSet(data) \/ spec_.y \notin ColSet(data)
             THEN Raise("KeyError")
             ELSE Ok(TopKStep(SortStep(GroupByAgg(data, spec_.x, spec_.y, spec_.aggregation),
                                       spec_), spec_))
        ELSE Ok(data)

aggregate_if_needed(df_, spec_) ==
    LET data == Copy(df_)
    IN  IF AggregationApplies(spec_)
        THEN IF spec_.x \notin ColSet(data) \/ spec_.y \notin ColSet(data)
             THEN Ok(data)
             ELSE Ok(TopKStep(SortStep(GroupByAgg(data, spec_.x, spec_.y, spec_.aggregation),
                                       spec_), spec_))
        ELSE Ok(data)

\* ---------------------------------------------------------------- build_figure
NoTable == [cols |-> <<>>, rows |-> <<>>]
NoFig == [kind |-> "none", x |-> None, y |-> None, color |-> None, title |-> "",
          labels |-> {}, data |-> NoTable, margin |-> FALSE]

\* labels: {x: x_label or x, y: y_label or y} for the axes that are set.
Labels(spec_) ==
    (IF spec_.x # None /\ spec_.x # ""
     THEN {<<spec_.x, IF spec_.formatting.x_label \in {None, ""} THEN spec_.x
                      ELSE spec_.formatting.x_label>>}
     ELSE {})
    \cup
    (IF spec_.y # None /\ spec_.y # ""
     THEN {<<spec_.y, IF spec_.formatting.y_label \in {None, ""} THEN spec_.y
                      ELSE spec_.formatting.y_label>>}
     ELSE {})

\* plotly express rejects an argument that names no column of the frame.
PxArgsOk(data, args) == \A a \in args : a = None \/ a \in ColSet(data)

\* A pivot that marks the (y, x) pairs that occur, instead of counting them.
PivotAny(data, x, y) ==
    LET both == SelectSeq(data.rows, LAMBDA r : ~IsNull(r[x]) /\ ~IsNull(r[y]))
        idx == SortedKeys({both[i][y] : i \in 1..Len(both)})
        cls == SortedKeys({both[i][x] : i \in 1..Len(both)})
    IN  [cols |-> cls,
         rows |-> [i \in 1..Len(idx) |->
                     [j \in 1..Len(cls) |->
                        IF \E k \in 1..Len(both) :
                               both[k][y] = idx[i] /\ both[k][x] = cls[j]
                        THEN 1 ELSE 0]],
         index |-> idx]

\* data.pivot_table(index=y, columns=x, aggfunc="size", fill_value=0): the
\* counts of the rows whose x and y are both set, per (y, x) pair.
PivotSize(data, x, y) ==
    LET both == SelectSeq(data.rows, LAMBDA r : ~IsNull(r[x]) /\ ~IsNull(r[y]))
        idx == SortedKeys({both[i][y] : i \in 1..Len(both)})
        cls == SortedKeys({both[i][x] : i \in 1..Len(both)})
    IN  [cols |-> cls,
         rows |-> [i \in 1..Len(idx) |->
                     [j \in 1..Len(cls) |->
                        Cardinality({k \in 1..Len(both) :
                                       both[k][y] = idx[i] /\ both[k][x] = cls[j]})]],
         index |-> idx]

Figure(kind, spec_, y, data) ==
    [kind |-> kind, x |-> spec_.x, y |-> y, color |-> spec_.color,
     title |-> spec_.title, labels |-> Labels(spec_), data |-> data, margin |-> TRUE]

FigOk(f) == [err |-> "none", data |-> NoTable, fig |-> f]
FigRaise(e) == [err |-> e, data |-> NoTable, fig |-> NoFig]

\* `v is None`, where the code tests `not v`.
IsNone(v) == v = None

\* `not v` for an optional string: None and "" are both falsy.
Not(v) == v \in {None, ""}

build_figure(df_, spec_) ==
    LET filtered == apply_filters(df_, spec_)
    IN  IF filtered.err # "none" THEN FigRaise(filtered.err)
        ELSE
        LET data == aggregate_if_needed(filtered.data, spec_).data
            x == spec_.x
            y == spec_.y
            color == spec_.color
        IN  CASE spec_.chart_type \in {"bar", "line", "scatter", "box"} ->
                   IF PxArgsOk(data, {x, y, color})
                   THEN FigOk(Figure(spec_.chart_type, spec_, y, data))
                   ELSE FigRaise("ValueError")
              [] spec_.chart_type = "hist" ->
                   IF PxArgsOk(data, {x, color})
                   THEN FigOk(Figure("hist", spec_, None, data))
                   ELSE FigRaise("ValueError")
              [] spec_.chart_type = "heatmap" ->
                   IF Not(x) \/ Not(y)
                   THEN FigRaise("Heatmap necessite x et y.")
                   ELSE IF x \notin ColSet(data) \/ y \notin ColSet(data)
                   THEN FigRaise("KeyError")
                   ELSE FigOk(Figure("heatmap", spec_, y, PivotSize(data, x, y)))
              [] OTHER -> FigRaise("chart_type inconnu")

\* ---------------------------------------------------------------- inputs
\* The filters the proposals draw from: each operator on a column of its own
\* type, a scalar and a list for `in`, a column the table does not have, an
\* ordering against a value of the other type, and a list under ==.
Filters ==
    {FilterSpec("genre", "==", Scalar(Str("Action"))),
     FilterSpec("genre", "!=", Scalar(Str("Action"))),
     FilterSpec("revenue", ">", Scalar(Num(100))),
     FilterSpec("revenue", "<", Scalar(Num(120))),
     FilterSpec("genre", "in", List(<<Str("Action"), Str("Comedy")>>)),
     FilterSpec("revenue", "in", Scalar(Num(100))),
     FilterSpec("budget", "==", Scalar(Str("Action"))),
     FilterSpec("genre", ">", Scalar(Num(100))),
     FilterSpec("revenue", "<", Scalar(Str("Action"))),
     FilterSpec("genre", "==", List(<<Str("Action"), Str("Comedy")>>))}

DefaultFormatting == FormattingSpec(None, None, None, TopKDefault)

\* Proposals that vary the filter list only.
FilterProposals ==
    {Proposal("scatter", "genre", "revenue", None, "none", fs, DefaultFormatting) :
        fs \in SeqsUpTo(Filters, MaxFilters)}

\* Proposals that vary what aggregate_if_needed reads; "budget" is no column
\* of the table.  x is the string column and y the numeric one (or None, ""):
\* grouping a column by itself and reducing strings are left out.
AggProposals ==
    {Proposal(ct, x, y, None, agg, <<>>, FormattingSpec(None, None, srt, k)) :
        ct \in {"bar", "line", "scatter"}, x \in {"genre", "budget"},
        y \in {None, "", "revenue", "budget"}, agg \in AggType,
        srt \in SortType, k \in {TopKMin, TopKDefault}}

\* Proposals for the whole pipeline: every chart type, with and without a
\* filter, a color and an aggregation, x naming a column or not; and the
\* heatmap proposals with an empty x.
FigProposalsOf(cts, xs) ==
    {Proposal(ct, x, y, color, agg, fs, FormattingSpec(None, "Revenue", srt, k)) :
        ct \in cts, x \in xs, y \in {None, "revenue"},
        color \in {None, "year"}, agg \in {"none", "sum"},
        fs \in {<<>>,
                <<FilterSpec("genre", "==", Scalar(Str("Action")))>>,
                <<FilterSpec("genre", ">", Scalar(Num(100)))>>},
        srt \in {None, "desc"}, k \in {TopKMin, TopKDefault}}

FigProposals ==
    FigProposalsOf(ChartType, {"genre", "budget"})
        \cup FigProposalsOf({"heatmap"}, {""})

\* ---------------------------------------------------------------- state machine
NoRet == [err |-> "none", data |-> NoTable, fig |-> NoFig]

\* The LLM side at rest: nothing to parse, nothing configured, nothing called.
Unused == "<unused>"

NoLLM ==
    /\ raw = Unused
    /\ text = Unused
    /\ cfg = Unused
    /\ replies = Unused
    /\ log = <<>>
    /\ result = Unused
    /\ session = Unused

TableRet(r) == [err |-> r.err, data |-> r.data, fig |-> NoFig]

InitWith(props) ==
    /\ df \in Tables
    /\ spec \in props
    /\ pc = "idle"
    /\ call = "none"
    /\ ret = NoRet
    /\ NoLLM

\* apply_filters filtering the caller's frame itself (no copy, in place).
ApplyFiltersInPlace ==
    /\ pc = "idle"
    /\ pc' = "done"
    /\ call' = "apply_filters"
    /\ ret' = TableRet(apply_filters(df, spec))
    /\ df' = IF ret'.err = "none" THEN ret'.data ELSE df
    /\ UNCHANGED <<spec, llm_vars>>

\* filtered = apply_filters(df, proposal)
ApplyFilters ==
    /\ pc = "idle"
    /\ pc' = "done"
    /\ call' = "apply_filters"
    /\ ret' = TableRet(apply_filters(df, spec))
    /\ UNCHANGED <<df, spec, llm_vars>>

\* aggregated = aggregate_if_needed(df, proposal)
AggregateIfNeeded ==
    /\ pc = "idle"
    /\ pc' = "done"
    /\ call' = "aggregate_if_needed"
    /\ ret' = TableRet(aggregate_if_needed(df, spec))
    /\ UNCHANGED <<df, spec, llm_vars>>

\* fig = build_figure(df, proposal)
BuildFigure ==
    /\ pc = "idle"
    /\ pc' = "done"
    /\ call' = "build_figure"
    /\ ret' = build_figure(df, spec)
    /\ UNCHANGED <<df, spec, llm_vars>>

Init == InitWith(FigProposals)

Next == ApplyFilters \/ AggregateIfNeeded \/ BuildFigure

Spec == Init /\ [][Next]_vars

InitFilters == InitWith(FilterProposals)

NextFilters == ApplyFilters

SpecFilters == InitFilters /\ [][NextFilters]_vars

InitAggregate == InitWith(AggProposals)

NextAggregate == AggregateIfNeeded

SpecAggregate == InitAggregate /\ [][NextAggregate]_vars

\* ---------------------------------------------------------------- properties
Returned(f) == pc = "done" /\ call = f

\* What a filter asks of a row, read from the operator's name alone: a cell
\* equals a scalar of its own kind and value, NaN equals nothing and is
\* neither greater nor less than anything, and only `in` takes a list.
CellIs(c, v) == ~IsNull(c) /\ CellEq(c, v)

Satisfies(r, f) ==
    LET c == r[f.col]
        v == f.value
        s == v.items[1]
    IN  CASE f.op = "==" -> ~v.list /\ CellIs(c, s)
          [] f.op = "!=" -> ~(~v.list /\ CellIs(c, s))
          [] f.op = ">"  -> ~v.list /\ ~IsNull(c) /\ c.k = s.k /\ CellLess(s, c)
          [] f.op = "<"  -> ~v.list /\ ~IsNull(c) /\ c.k = s.k /\ CellLess(c, s)
          [] OTHER       -> \E j \in 1..Len(v.items) : CellIs(c, v.items[j])

SatisfiesAll(r, t, fs) ==
    \A i \in 1..Len(fs) : fs[i].col \in ColSet(t) => Satisfies(r, fs[i])

\* C1: when apply_filters returns, its result holds exactly the rows of the
\* table that satisfy every filter whose column the table has, in the
\* table's order and with the table's columns (all rows for an empty list).
C1_FilterExactRows ==
    (Returned("apply_filters") /\ ret.err = "none") =>
        ret.data = [cols |-> df.cols,
                    rows |-> SelectSeq(df.rows,
                                       LAMBDA r : SatisfiesAll(r, df, spec.filters))]

\* The same statement for the filter lists in which a list value occurs
\* under `in` only.
ListOnlyUnderIn(fs) == \A i \in 1..Len(fs) : fs[i].value.list => fs[i].op = "in"

C1_FilterExactRowsScalar ==
    (Returned("apply_filters") /\ ret.err = "none" /\ ListOnlyUnderIn(spec.filters)) =>
        ret.data = [cols |-> df.cols,
                    rows |-> SelectSeq(df.rows,
                                       LAMBDA r : SatisfiesAll(r, df, spec.filters))]

\* The conditions of aggregation as the contract words them.
Aggregates(p) ==
    /\ p.chart_type \in {"bar", "line"}
    /\ p.y \notin {None, ""}
    /\ p.aggregation \in {"mean", "sum", "median", "count"}

HasXY(t, p) == p.x \in ColSet(t) /\ p.y \in ColSet(t)

\* The distinct non-null values of column x.
XKeys(t, x) == {t.rows[i][x] : i \in 1..Len(t.rows)} \ {Null}

\* The rows of group g.
GroupIdx(t, x, g) == {i \in 1..Len(t.rows) : t.rows[i][x] = g}

\* C2: aggregate_if_needed returns its input as it is (rows, columns, order;
\* neither sorted nor truncated) unless the chart is a bar or a line, y is
\* set and the aggregation is not none.
C2_NoAggregationIdentity ==
    (Returned("aggregate_if_needed") /\ ~Aggregates(spec)) =>
        (ret.err = "none" /\ ret.data = df)

C2_Witness ==
    /\ Returned("aggregate_if_needed")
    /\ spec.chart_type = "scatter" /\ spec.y = "revenue" /\ spec.aggregation = "sum"
    /\ spec.formatting.sort = "asc" /\ spec.formatting.top_k = 1
    /\ Len(df.rows) = 2
    /\ df.rows[1]["revenue"] = Num(120) /\ df.rows[2]["revenue"] = Num(100)
    /\ ret.data = df

\* C3: under count, the y of every output row is the number of input rows
\* of its x group, a strictly positive integer.
C3_CountIsGroupSize ==
    (Returned("aggregate_if_needed") /\ Aggregates(spec) /\ HasXY(df, spec)
        /\ spec.aggregation = "count") =>
        \A i \in 1..Len(ret.data.rows) :
            LET r == ret.data.rows[i]
            IN  /\ r[spec.y] = Num(Cardinality(GroupIdx(df, spec.x, r[spec.x])))
                /\ r[spec.y].n > 0

\* The total of column y over the given rows of t, NaN skipped.
RECURSIVE TotalY(_, _, _)
TotalY(t, y, I) ==
    IF I = {} THEN 0
    ELSE LET i == CHOOSE j \in I : TRUE
         IN  (IF IsNull(t.rows[i][y]) THEN 0 ELSE t.rows[i][y].n) + TotalY(t, y, I \ {i})

\* C4: under sum, the y of every output row is the total of y over the input
\* rows of its x group, and when nothing is truncated the output's total is
\* the total of y over the input rows whose x is set.
C4_SumConservation ==
    (Returned("aggregate_if_needed") /\ Aggregates(spec) /\ HasXY(df, spec)
        /\ spec.aggregation = "sum") =>
        /\ \A i \in 1..Len(ret.data.rows) :
              LET r == ret.data.rows[i]
              IN  r[spec.y] = Num(TotalY(df, spec.y, GroupIdx(df, spec.x, r[spec.x])))
        /\ Len(ret.data.rows) = Cardinality(XKeys(df, spec.x)) =>
              TotalY(ret.data, spec.y, 1..Len(ret.data.rows)) =
              TotalY(df, spec.y, {i \in 1..Len(df.rows) : ~IsNull(df.rows[i][spec.x])})

C4_Witness ==
    /\ Returned("aggregate_if_needed") /\ Aggregates(spec) /\ HasXY(df, spec)
    /\ spec.aggregation = "sum"
    /\ Len(df.rows) = 2
    /\ df.rows[1]["genre"] = Str("Action") /\ df.rows[1]["revenue"] = Num(100)
    /\ df.rows[2]["genre"] = Str("Action") /\ df.rows[2]["revenue"] = Num(120)
    /\ Len(ret.data.rows) = 1
    /\ ret.data.rows[1]["revenue"] = Num(220)

\* C5: when aggregation applies, the result has the columns x and y only,
\* its rows have pairwise distinct x values taken from the input's non-null x
\* values, and unless truncated there is one row for each of them.
C5_OneRowPerGroup ==
    (Returned("aggregate_if_needed") /\ Aggregates(spec) /\ HasXY(df, spec)) =>
        LET out == ret.data
            keys == XKeys(df, spec.x)
        IN  /\ ret.err = "none"
            /\ ColSet(out) = {spec.x, spec.y} /\ Len(out.cols) = 2
            /\ \A i \in 1..Len(out.rows) : DOMAIN out.rows[i] = {spec.x, spec.y}
            /\ \A i, j \in 1..Len(out.rows) :
                  out.rows[i][spec.x] = out.rows[j][spec.x] => i = j
            /\ XKeys(out, spec.x) \subseteq keys
            /\ \A i \in 1..Len(out.rows) : ~IsNull(out.rows[i][spec.x])
            /\ Cardinality(keys) <= spec.formatting.top_k =>
                  (XKeys(out, spec.x) = keys /\ Len(out.rows) = Cardinality(keys))

C5_Witness ==
    /\ Returned("aggregate_if_needed") /\ Aggregates(spec) /\ HasXY(df, spec)
    /\ Len(df.rows) = 2
    /\ \E i \in 1..2 : IsNull(df.rows[i]["genre"])
    /\ "year" \in ColSet(df)
    /\ Len(ret.data.rows) = 1
    /\ ret.data.cols = <<"genre", "revenue">>

Min(a, b) == IF a < b THEN a ELSE b

\* C6: when aggregation applies, the result has min(groups, top_k) rows, and
\* they are the first rows of the sequence that the same proposal yields
\* without truncation; under desc no group left out has a larger y than a
\* row that is kept.
C6_TopKHead ==
    (Returned("aggregate_if_needed") /\ Aggregates(spec) /\ HasXY(df, spec)) =>
        LET out == ret.data.rows
            k == Min(Cardinality(XKeys(df, spec.x)), spec.formatting.top_k)
            full == aggregate_if_needed(
                        df, [spec EXCEPT !.formatting.top_k = TopKMax]).data.rows
        IN  /\ Len(out) = k
            /\ Len(out) <= spec.formatting.top_k
            /\ Len(full) = Cardinality(XKeys(df, spec.x))
            /\ out = SubSeq(full, 1, k)
            /\ spec.formatting.sort = "desc" =>
                  \A i \in 1..Len(out), j \in 1..Len(full) :
                      (\A h \in 1..Len(out) : out[h][spec.x] # full[j][spec.x]) =>
                          ~(/\ ~IsNull(out[i][spec.y]) /\ ~IsNull(full[j][spec.y])
                            /\ CellLess(out[i][spec.y], full[j][spec.y]))

C6_Witness ==
    /\ Returned("aggregate_if_needed") /\ Aggregates(spec) /\ HasXY(df, spec)
    /\ spec.aggregation = "mean" /\ spec.formatting.sort = "desc"
    /\ spec.formatting.top_k = 1
    /\ Len(df.rows) = 2
    /\ df.rows[1]["genre"] = Str("Action") /\ df.rows[1]["revenue"] = Num(100)
    /\ df.rows[2]["genre"] = Str("Comedy") /\ df.rows[2]["revenue"] = Num(120)
    /\ Len(ret.data.rows) = 1
    /\ ret.data.rows[1]["genre"] = Str("Comedy")

\* a <= b between reduced values, NaN not among them.
CellLeq(a, b) == ~IsNull(a) /\ ~IsNull(b) /\ ~CellLess(b, a)

\* a <= b with NaN read as the largest value (the order numpy sorts by), the
\* reading under which a frame sorted asc with NaN last is non-decreasing.
CellLeqNaNHigh(a, b) == IsNull(b) \/ CellLeq(a, b)

Sorts(p) == p.formatting.sort \in {"asc", "desc"}

\* C7 as stated: under asc (desc) the y values of the returned rows are
\* non-decreasing (non-increasing) from each row to the next.  NaN is read as
\* the largest value; read as the smallest, the same rows fail under asc.
C7_Monotone ==
    (Returned("aggregate_if_needed") /\ Aggregates(spec) /\ HasXY(df, spec)
        /\ Sorts(spec)) =>
        \A i \in 1..(Len(ret.data.rows) - 1) :
            LET a == ret.data.rows[i][spec.y]
                b == ret.data.rows[i + 1][spec.y]
            IN  IF spec.formatting.sort = "asc"
                THEN CellLeqNaNHigh(a, b) ELSE CellLeqNaNHigh(b, a)

\* C7 amended: under asc (desc) the non-null y values of the returned rows
\* are non-decreasing (non-increasing), and the rows whose y is NaN come
\* after all the others.
C7_MonotoneNullsLast ==
    (Returned("aggregate_if_needed") /\ Aggregates(spec) /\ HasXY(df, spec)
        /\ Sorts(spec)) =>
        \A i, j \in 1..Len(ret.data.rows) :
            i < j =>
                LET a == ret.data.rows[i][spec.y]
                    b == ret.data.rows[j][spec.y]
                IN  /\ IsNull(a) => IsNull(b)
                    /\ (~IsNull(a) /\ ~IsNull(b)) =>
                          IF spec.formatting.sort = "asc"
                          THEN CellLeq(a, b) ELSE CellLeq(b, a)

C7_Witness ==
    /\ Returned("aggregate_if_needed") /\ Aggregates(spec) /\ HasXY(df, spec)
    /\ spec.aggregation = "median" /\ spec.formatting.sort = "desc"
    /\ Len(df.rows) = 2
    /\ df.rows[1]["genre"] = Str("Action") /\ IsNull(df.rows[1]["revenue"])
    /\ df.rows[2]["genre"] = Str("Comedy") /\ df.rows[2]["revenue"] = Num(100)
    /\ Len(ret.data.rows) = 2
    /\ ret.data.rows[1]["genre"] = Str("Comedy")
    /\ ret.data.rows[2]["genre"] = Str("Action")
    /\ IsNull(ret.data.rows[2]["revenue"])

\* C8: no call of apply_filters, aggregate_if_needed or build_figure, whether
\* it returns or raises, changes the table it was given.
C8_SourceUnchanged == [][df' = df]_vars

C8_Witness ==
    /\ Returned("build_figure") /\ ret.err = "none"
    /\ spec.aggregation = "sum" /\ spec.chart_type = "bar"
    /\ Len(spec.filters) = 1
    /\ Len(df.rows) = 2
    /\ Len(ret.fig.data.rows) = 1
    /\ ret.fig.data.cols # df.cols

\* The filter list without its i-th element.
Without(fs, i) == SubSeq(fs, 1, i - 1) \o SubSeq(fs, i + 1, Len(fs))

\* C9: a filter on a column the table does not have changes nothing: the
\* outcome of apply_filters (rows or exception) is the outcome for the list
\* without that filter, and a list of such filters alone returns the table.
C9_UnknownColumnSkipped ==
    Returned("apply_filters") =>
        /\ \A i \in 1..Len(spec.filters) :
              spec.filters[i].col \notin ColSet(df) =>
                  ret = TableRet(apply_filters(
                            df, [spec EXCEPT !.filters = Without(spec.filters, i)]))
        /\ (\A i \in 1..Len(spec.filters) : spec.filters[i].col \notin ColSet(df)) =>
              (ret.err = "none" /\ ret.data = df)

C9_Witness ==
    /\ Returned("apply_filters") /\ ret.err = "none"
    /\ Len(spec.filters) = 2
    /\ spec.filters[1].col = "budget"
    /\ spec.filters[2] = FilterSpec("genre", "==", Scalar(Str("Action")))
    /\ Len(df.rows) = 2
    /\ Len(ret.data.rows) = 1

\* C10: when the aggregation conditions hold but x or y is no column of the
\* table, aggregate_if_needed raises nothing and returns its input as it is.
C10_MissingColumnIdentity ==
    (Returned("aggregate_if_needed") /\ Aggregates(spec) /\ ~HasXY(df, spec)) =>
        (ret.err = "none" /\ ret.data = df)

C10_Witness ==
    /\ Returned("aggregate_if_needed") /\ Aggregates(spec)
    /\ spec.x = "genre" /\ spec.y = "budget"
    /\ spec.formatting.sort = "asc" /\ spec.formatting.top_k = 1
    /\ Len(df.rows) = 2
    /\ df.rows[1]["revenue"] = Num(120) /\ df.rows[2]["revenue"] = Num(100)
    /\ ret.err = "none" /\ ret.data = df

\* ---------------------------------------------------------------- schema
\* A raw record is what Proposal(**record) is called with: a function from
\* the keys the record holds to their values.
NoKeys == [k \in {} |-> 0]

Has(r, k) == k \in DOMAIN r

\* r.get(k, d)
Get(r, k, d) == IF Has(r, k) THEN r[k] ELSE d

\* Values given for an int field: a JSON integer, or a string of its digits.
JsonInt(n) == [t |-> "int", n |-> n]
NumStr(n) == [t |-> "str", n |-> n]

\* A validation's outcome: the validated value, or pydantic's ValidationError.
Valid(v) == [err |-> "none", value |-> v]
ValidationError == [err |-> "ValidationError", value |-> NoKeys]

\* A Literal[...] field accepts its members only and converts nothing.
validate_literal(v, allowed) ==
    IF v \in allowed THEN Valid(v) ELSE ValidationError

\* An int field that brings an out-of-range value to the nearest bound.
clamp_int(v, ge, le) ==
    Valid(IF v.n < ge THEN ge ELSE IF v.n > le THEN le ELSE v.n)

\* An int field with ge and le: a string of digits is converted to its
\* integer, then the bounds are checked.
validate_int(v, ge, le) ==
    IF v.n >= ge /\ v.n =< le THEN Valid(v.n) ELSE ValidationError

\* FilterSpec(**f): col, op and value are required.
validate_FilterSpec(f) ==
    IF ~ ({"col", "op", "value"} \subseteq DOMAIN f) THEN ValidationError
    ELSE IF validate_literal(f.op, FilterOp).err # "none" THEN ValidationError
    ELSE Valid(FilterSpec(f.col, f.op, f.value))

\* filters: List[FilterSpec]
validate_filters(fs) ==
    IF \E i \in 1..Len(fs) : validate_FilterSpec(fs[i]).err # "none"
    THEN ValidationError
    ELSE Valid([i \in 1..Len(fs) |-> validate_FilterSpec(fs[i]).value])

\* FormattingSpec(**f): every key has a default.
validate_FormattingSpec(f) ==
    LET sort == validate_literal(Get(f, "sort", None), SortType)
        top_k == IF Has(f, "top_k")
                 THEN validate_int(f.top_k, TopKMin, TopKMax)
                 ELSE Valid(TopKDefault)
    IN  IF sort.err # "none" \/ top_k.err # "none" THEN ValidationError
        ELSE Valid(FormattingSpec(Get(f, "x_label", None),
                                  Get(f, "y_label", None),
                                  sort.value, top_k.value))

\* Proposal(**r): id, title, chart_type, x and reasoning are required; keys
\* the class does not declare (interpretation, recommendations) are ignored.
validate_Proposal(r) ==
    IF ~ ({"id", "title", "chart_type", "x", "reasoning"} \subseteq DOMAIN r)
    THEN ValidationError
    ELSE LET chart_type == validate_literal(r.chart_type, ChartType)
             aggregation ==
                 validate_literal(Get(r, "aggregation", "none"), AggType)
             filters == IF Has(r, "filters") THEN validate_filters(r.filters)
                        ELSE Valid(<<>>)
             formatting == validate_FormattingSpec(Get(r, "formatting", NoKeys))
         IN  IF \/ chart_type.err # "none" \/ aggregation.err # "none"
                \/ filters.err # "none" \/ formatting.err # "none"
             THEN ValidationError
             ELSE Valid([id |-> r.id, title |-> r.title,
                         chart_type |-> chart_type.value, x |-> r.x,
                         y |-> Get(r, "y", None),
                         color |-> Get(r, "color", None),
                         aggregation |-> aggregation.value,
                         filters |-> filters.value,
                         reasoning |-> r.reasoning,
                         formatting |-> formatting.value])

\* proposal.model_dump(exclude_none=True): y and color left out when None.
model_dump_exclude_none(p) ==
    [k \in (DOMAIN p \ {"y", "color"}) \cup {j \in {"y", "color"} : p[j] # None} |->
        IF k = "formatting"
        THEN [x_label |-> p.formatting.x_label,
              y_label |-> p.formatting.y_label,
              sort |-> p.formatting.sort,
              top_k |-> JsonInt(p.formatting.top_k)]
        ELSE p[k]]

\* proposal.model_dump(): the declared fields and nothing else.
model_dump(p) ==
    [id |-> p.id, title |-> p.title, chart_type |-> p.chart_type, x |-> p.x,
     y |-> p.y, color |-> p.color, aggregation |-> p.aggregation,
     filters |-> p.filters, reasoning |-> p.reasoning,
     formatting |-> [x_label |-> p.formatting.x_label,
                     y_label |-> p.formatting.y_label,
                     sort |-> p.formatting.sort,
                     top_k |-> JsonInt(p.formatting.top_k)]]

\* Raw records: id, title, chart_type and x, then any of the other keys, with
\* values inside and outside the enumerations and the top_k range.
Key(k, values) == {NoKeys} \cup {[j \in {k} |-> v] : v \in values}

RawFilters ==
    {<<FilterSpec("genre", "==", Scalar(Str("Action")))>>,
     <<FilterSpec("revenue", "<=", Scalar(Num(100)))>>}

RawTopK ==
    {JsonInt(TopKMin - 1), JsonInt(TopKMin), JsonInt(5), NumStr(5),
     JsonInt(TopKMax), JsonInt(TopKMax + 1)}

RawFormattings ==
    {s @@ k : s \in Key("sort", {"desc"}), k \in Key("top_k", RawTopK)}

RawProposals ==
    {[id |-> 1, title |-> "Test", chart_type |-> ct, x |-> "genre"]
        @@ y @@ agg @@ fs @@ reasoning @@ fmt @@ interpretation :
        ct \in ChartType \cup {"pie"},
        y \in Key("y", {"revenue"}),
        agg \in Key("aggregation", {"sum", "max"}),
        fs \in Key("filters", RawFilters),
        reasoning \in Key("reasoning", {"r"}),
        fmt \in Key("formatting", RawFormattings),
        interpretation \in Key("interpretation", {"i"})}

\* The dataset of the tests, cut to two rows.
sample_df ==
    [cols |-> Columns,
     rows |-> <<[c \in Range(Columns) |->
                   CASE c = "genre" -> Str("Action")
                     [] c = "revenue" -> Num(100) [] OTHER -> Num(2020)],
                [c \in Range(Columns) |->
                   CASE c = "genre" -> Str("Comedy")
                     [] c = "revenue" -> Num(120) [] OTHER -> Num(2020)]>>]

NoProposal == NoKeys

InitSchema ==
    /\ df = sample_df
    /\ spec = NoProposal
    /\ pc = "new"
    /\ call = "none"
    /\ ret = NoRet
    /\ raw \in RawProposals
    /\ text = Unused
    /\ cfg = Unused
    /\ replies = Unused
    /\ log = <<>>
    /\ result = Unused
    /\ session = Unused

\* proposal = Proposal(**raw)
Construct ==
    /\ pc = "new"
    /\ call' = "Proposal"
    /\ LET v == validate_Proposal(raw)
       IN  IF v.err = "none"
           THEN /\ spec' = v.value
                /\ pc' = "idle"
                /\ ret' = NoRet
           ELSE /\ spec' = spec
                /\ pc' = "done"
                /\ ret' = [NoRet EXCEPT !.err = v.err]
    /\ UNCHANGED <<df, llm_vars>>

\* data = proposal.model_dump()
ModelDump ==
    /\ pc = "idle"
    /\ pc' = "done"
    /\ call' = "model_dump"
    /\ result' = model_dump(spec)
    /\ UNCHANGED <<df, spec, ret, raw, text, cfg, replies, log, session>>

NextSchema ==
    Construct \/ ModelDump \/ ApplyFilters \/ AggregateIfNeeded \/ BuildFigure

SpecSchema == InitSchema /\ [][NextSchema]_vars

\* A raw record holds a value outside an enumeration or the top_k range.
OutsideSchema(r) ==
    \/ Has(r, "chart_type") /\ r.chart_type \notin ChartType
    \/ Has(r, "aggregation") /\ r.aggregation \notin AggType
    \/ /\ Has(r, "filters")
       /\ \E i \in 1..Len(r.filters) : r.filters[i].op \notin FilterOp
    \/ /\ Has(r, "formatting")
       /\ Has(r.formatting, "top_k")
       /\ r.formatting.top_k.n \notin TopKMin..TopKMax

Constructed == pc # "new"

\* C11: constructing a Proposal (its FilterSpecs and FormattingSpec with it)
\* from a record whose chart_type, aggregation or filter op is outside its
\* enumeration, or whose top_k is outside [1, 200], fails with a validation
\* error: no proposal comes out of it, with the value converted or not.
C11_OutsideSchemaRejected ==
    (Constructed /\ OutsideSchema(raw)) =>
        /\ call = "Proposal"
        /\ pc = "done"
        /\ ret.err = "ValidationError"
        /\ spec = NoProposal

\* top_k = 0 (test_formatting_spec_top_k_validation) is rejected.
C11_Witness ==
    /\ Constructed
    /\ Has(raw, "formatting")
    /\ Has(raw.formatting, "top_k")
    /\ raw.formatting.top_k = JsonInt(TopKMin - 1)
    /\ raw.chart_type = "bar"
    /\ Has(raw, "reasoning")
    /\ ret.err = "ValidationError"

\* The fields the Proposal class declares.
Declared ==
    {"id", "title", "chart_type", "x", "y", "color", "aggregation",
     "filters", "reasoning", "formatting"}

\* The keys of the input under formatting come back with their values.
FormattingPreserved(r, d) ==
    Has(r, "formatting") =>
        \A k \in DOMAIN r.formatting :
            Has(d.formatting, k) /\ d.formatting[k] = r.formatting[k]

\* As FormattingPreserved, a top_k given as a string of digits coming back
\* as the integer it denotes.
FormattingPreservedAsInt(r, d) ==
    Has(r, "formatting") =>
        \A k \in DOMAIN r.formatting :
            /\ Has(d.formatting, k)
            /\ IF k = "top_k"
               THEN d.formatting.top_k = JsonInt(r.formatting.top_k.n)
               ELSE d.formatting[k] = r.formatting[k]

\* Omitted keys carry their defaults in the output.
DefaultsFilled(r, d) ==
    /\ Has(d, "aggregation") /\ (~ Has(r, "aggregation") => d.aggregation = "none")
    /\ Has(d, "filters") /\ (~ Has(r, "filters") => d.filters = <<>>)
    /\ Has(d, "y") /\ (~ Has(r, "y") => d.y = None)
    /\ Has(d, "color") /\ (~ Has(r, "color") => d.color = None)
    /\ Has(d, "formatting")
    /\ Has(d.formatting, "top_k") /\ Has(d.formatting, "sort")
    /\ (~ Has(r, "formatting") \/ ~ Has(r.formatting, "top_k")) =>
           d.formatting.top_k = JsonInt(TopKDefault)
    /\ (~ Has(r, "formatting") \/ ~ Has(r.formatting, "sort")) =>
           d.formatting.sort = None

C20_ConstructedWithoutReasoning ==
    (Constructed /\ ~ Has(raw, "reasoning") /\ ~ OutsideSchema(raw)) =>
        /\ spec # NoProposal
        /\ ret.err # "ValidationError"
        /\ (Returned("build_figure") /\ spec.chart_type = "hist") =>
               ret.fig # NoFig

\* ---------------------------------------------------------------- heatmap
HeatmapError == "Heatmap necessite x et y."

\* A column argument is absent: None or the empty string.
IsAbsent(v) == v \in {None, ""}

\* C17 as stated: build_figure on a heatmap proposal whose x or y is absent
\* (None or empty) raises the precondition error and produces no figure,
\* whatever the filters and the aggregation.
C17_HeatmapPrecondition ==
    (Returned("build_figure") /\ spec.chart_type = "heatmap"
        /\ (IsAbsent(spec.x) \/ IsAbsent(spec.y))) =>
        /\ ret.err = HeatmapError
        /\ ret.fig = NoFig

\* C17: build_figure on a heatmap proposal whose x or y is absent produces
\* no figure, whatever the filters and the aggregation: it raises the
\* precondition error when the filters apply without error, and the error of
\* the filters otherwise.
C17_HeatmapPreconditionAfterFilters ==
    (Returned("build_figure") /\ spec.chart_type = "heatmap"
        /\ (IsAbsent(spec.x) \/ IsAbsent(spec.y))) =>
        /\ ret.fig = NoFig
        /\ ret.err = IF apply_filters(df, spec).err = "none"
                     THEN HeatmapError
                     ELSE apply_filters(df, spec).err

C17_Witness ==
    /\ Returned("build_figure")
    /\ spec.chart_type = "heatmap"
    /\ spec.x = ""
    /\ spec.y = "revenue"
    /\ spec.aggregation = "sum"
    /\ Len(spec.filters) = 1
    /\ Len(df.rows) = MaxRows
    /\ ret.err = HeatmapError
    /\ ret.fig = NoFig

RECURSIVE SumSeq(_)
SumSeq(s) == IF s = <<>> THEN 0 ELSE Head(s) + SumSeq(Tail(s))

\* The sum of all cells of a pivot.
CellSum(pivot) == SumSeq([i \in 1..Len(pivot.rows) |-> SumSeq(pivot.rows[i])])

\* The rows of a table that satisfy keep.
RowsWhere(t, keep(_)) == {i \in 1..Len(t.rows) : keep(t.rows[i])}

\* A heatmap figure has been built: x and y are present and name columns.
HeatmapBuilt ==
    Returned("build_figure") /\ spec.chart_type = "heatmap" /\ ret.err = "none"

\* Each cell of the pivot is the number of rows of t with that (y, x) pair.
CellsCount(pivot, t, x, y) ==
    \A i \in 1..Len(pivot.index) : \A j \in 1..Len(pivot.cols) :
        pivot.rows[i][j] =
            Cardinality(RowsWhere(t, LAMBDA r : r[y] = pivot.index[i]
                                                /\ r[x] = pivot.cols[j]))

\* The aggregation setting leaves the pivot as it is.
AggregationIgnored(pivot) ==
    \A a \in AggType :
        build_figure(df, [spec EXCEPT !.aggregation = a]).fig.data = pivot

\* C18 as stated: for a heatmap with x and y present, the pivot's row index
\* is the distinct non-null y values of the filtered rows, its column index
\* their distinct non-null x values, each cell the count of the filtered rows
\* with that pair, the cells sum to the filtered row count, and the
\* aggregation setting has no effect.
C18_HeatmapPivot ==
    HeatmapBuilt =>
        LET filtered == apply_filters(df, spec).data
            pivot == ret.fig.data
        IN  /\ Range(pivot.index) =
                   {r[spec.y] : r \in Range(filtered.rows)} \ {Null}
            /\ Range(pivot.cols) =
                   {r[spec.x] : r \in Range(filtered.rows)} \ {Null}
            /\ CellsCount(pivot, filtered, spec.x, spec.y)
            /\ CellSum(pivot) = Len(filtered.rows)
            /\ AggregationIgnored(pivot)

\* C18: for a heatmap with x and y present, the pivot is built from the
\* filtered rows whose x and y are both non-null: its row index is their
\* distinct y values, its column index their distinct x values, each cell is
\* the count of the filtered rows with that pair (0 when there is none), the
\* cells sum to the number of those rows, and the aggregation setting has no
\* effect.
C18_HeatmapPivotOfCompleteRows ==
    HeatmapBuilt =>
        LET filtered == apply_filters(df, spec).data
            pivot == ret.fig.data
            both == {r \in Range(filtered.rows) :
                        ~IsNull(r[spec.x]) /\ ~IsNull(r[spec.y])}
        IN  /\ Range(pivot.index) = {r[spec.y] : r \in both}
            /\ Range(pivot.cols) = {r[spec.x] : r \in both}
            /\ Len(pivot.index) = Cardinality(Range(pivot.index))
            /\ Len(pivot.cols) = Cardinality(Range(pivot.cols))
            /\ CellsCount(pivot, filtered, spec.x, spec.y)
            /\ CellSum(pivot) =
                   Cardinality(RowsWhere(filtered, LAMBDA r : r \in both))
            /\ AggregationIgnored(pivot)

\* Two filtered rows, one of them without a y value: one cell, holding 1.
C18_Witness ==
    /\ HeatmapBuilt
    /\ spec.aggregation = "sum"
    /\ spec.filters = <<>>
    /\ Len(df.rows) = MaxRows
    /\ \E i \in 1..Len(df.rows) : IsNull(df.rows[i][spec.y])
    /\ CellSum(ret.fig.data) = 1

\* ---------------------------------------------------------------- generation
\* Most retries the settings ask for (LLM_MAX_RETRIES).
MaxRetries == 2

\* API keys: missing, the placeholder of the sample .env, and a real key.
ClaudeKeys == {"", "your_claude_api_key_here", "sk-ant-key"}
GeminiKeys == {"", "your_gemini_api_key_here", "AIza-key"}

\* `marker in key`
Contains(key, marker) ==
    <<key, marker>> \in {<<"your_claude_api_key_here", "your_claude">>,
                         <<"your_gemini_api_key_here", "your_gemini">>}

\* settings: the provider tried first, the two keys and the retry count.
Settings ==
    [llm_provider : {"claude", "gemini"}, claude_api_key : ClaudeKeys,
     gemini_api_key : GeminiKeys, llm_max_retries : 0..MaxRetries]

\* What an LLM request comes back with: an exception of the client, a text
\* no JSON can be extracted from, or a text holding a JSON list or a JSON
\* object {"proposals": [...]} of records.
ApiError(e) == [kind |-> "error", error |-> e, items |-> <<>>]
Garbage == [kind |-> "garbage", error |-> "none", items |-> <<>>]
JsonList(items) == [kind |-> "list", error |-> "none", items |-> items]
JsonObject(items) == [kind |-> "object", error |-> "none", items |-> items]

\* A record the schema accepts, and one with a chart type outside of it.
GoodRecord ==
    [id |-> 1, title |-> "Test", chart_type |-> "bar", x |-> "genre",
     reasoning |-> "r"]
BadRecord ==
    [id |-> 1, title |-> "Test", chart_type |-> "pie", x |-> "genre",
     reasoning |-> "r"]

Reply ==
    {ApiError("APIError"), ApiError("RateLimitError"), Garbage,
     JsonList(<<>>), JsonList(<<GoodRecord>>), JsonList(<<BadRecord>>),
     JsonObject(<<GoodRecord>>), JsonObject(<<BadRecord>>)}

\* The k-th LLM request of a call is answered by the k-th reply.
Replies == [1..(MaxRetries + 1) -> Reply]

\* A generation call's outcome: the value returned or the error raised, the
\* error of the last failed attempt, the providers whose service was
\* called, and the LLM requests made (by provider).
NoValue == [kind |-> "none", items |-> <<>>]
NoError == "none"

Returns(v, tried, requests) ==
    [err |-> "none", last_error |-> NoError, value |-> v, tried |-> tried,
     requests |-> requests]

Raises(e, last_error, tried, requests) ==
    [err |-> e, last_error |-> last_error, value |-> NoValue, tried |-> tried,
     requests |-> requests]

\* ProposalsResponse.model_validate(data): an object whose "proposals" is a
\* list of records, each validated as a Proposal.
validate_ProposalsResponse(data) ==
    IF data.kind # "object" THEN ValidationError
    ELSE IF \E i \in 1..Len(data.items) :
                validate_Proposal(data.items[i]).err # "none"
    THEN ValidationError
    ELSE Valid([kind |-> "ProposalsResponse",
                items |-> [i \in 1..Len(data.items) |->
                             validate_Proposal(data.items[i]).value]])

\* One pass of the loop body of generate_three_proposals: request, extract,
\* validate.
ThreeAttempt(reply) ==
    IF reply.kind = "error" THEN [err |-> reply.error, value |-> NoValue]
    ELSE IF reply.kind = "garbage" THEN [err |-> "ValueError", value |-> NoValue]
    ELSE validate_ProposalsResponse(reply)

\* for attempt in range(settings.llm_max_retries + 1): ...
RECURSIVE ThreeLoop(_, _, _, _)
ThreeLoop(cfg_, rs, attempt, last_err) ==
    LET made == [i \in 1..attempt |-> "gemini"]
    IN  IF attempt >= cfg_.llm_max_retries + 1
        THEN Raises("LLM a echoue apres retries", last_err, <<>>, made)
        ELSE LET a == ThreeAttempt(rs[attempt + 1])
             IN  IF a.err = "none"
                 THEN Returns(a.value, <<>>, Append(made, "gemini"))
                 ELSE ThreeLoop(cfg_, rs, attempt + 1, a.err)

generate_three_proposals(cfg_, rs) ==
    IF cfg_.gemini_api_key = ""
    THEN Raises("GEMINI_API_KEY manquant", NoError, <<>>, <<>>)
    ELSE ThreeLoop(cfg_, rs, 0, NoError)

\* One pass of the loop body of claude_service.generate_analysis_proposals:
\* request, extract, and the test `not proposals or not isinstance(..., list)`.
ClaudeAttempt(reply) ==
    IF reply.kind = "error" THEN [err |-> reply.error, value |-> NoValue]
    ELSE IF reply.kind = "garbage" THEN [err |-> "ValueError", value |-> NoValue]
    ELSE IF reply.kind # "list" \/ reply.items = <<>>
    THEN [err |-> "Invalid response format", value |-> NoValue]
    ELSE [err |-> "none", value |-> [kind |-> "list", items |-> reply.items]]

\* for attempt in range(settings.llm_max_retries): ...
RECURSIVE ClaudeLoop(_, _, _, _)
ClaudeLoop(cfg_, rs, attempt, last_error) ==
    LET made == [i \in 1..attempt |-> "claude"]
    IN  IF attempt >= cfg_.llm_max_retries
        THEN Raises("Failed to generate proposals", last_error, <<>>, made)
        ELSE LET a == ClaudeAttempt(rs[attempt + 1])
             IN  IF a.err = "none"
                 THEN Returns(a.value, <<>>, Append(made, "claude"))
                 ELSE ClaudeLoop(cfg_, rs, attempt + 1, a.err)

claude_generate_analysis_proposals(cfg_, rs) ==
    IF cfg_.claude_api_key = ""
    THEN Raises("CLAUDE_API_KEY missing", NoError, <<>>, <<>>)
    ELSE ClaudeLoop(cfg_, rs, 0, NoError)

\* generate_proposals_gemini: one request, and whatever JSON value
\* extract_json_from_response finds in the answer.
generate_proposals_gemini(cfg_, rs) ==
    LET reply == rs[1]
    IN  IF reply.kind = "error" THEN Raises(reply.error, NoError, <<>>, <<"gemini">>)
        ELSE IF reply.kind = "garbage"
        THEN Raises("ValueError", NoError, <<>>, <<"gemini">>)
        ELSE Returns([kind |-> reply.kind, items |-> reply.items], <<>>,
                     <<"gemini">>)

\* providers = ["claude", "gemini"] if primary == "claude" else ["gemini", "claude"]
Providers(primary) ==
    IF primary = "claude" THEN <<"claude", "gemini">> ELSE <<"gemini", "claude">>

\* A credential test that lets the placeholder key through.
NoKey(key, marker) == key = ""

\* not key or marker in key
NotConfigured(key, marker) == key = "" \/ Contains(key, marker)

\* A router that reports missing keys whatever made the providers fail.
RouterFailureNoKeys(last_error, tried, requests) ==
    Raises("No valid LLM API keys found", last_error, tried, requests)

\* The raise after the loop of the router.
RouterFailure(last_error, tried, requests) ==
    IF last_error # NoError
    THEN Raises("Analysis failed", last_error, tried, requests)
    ELSE Raises("No valid LLM API keys found", NoError, tried, requests)

\* for provider in providers: ...
RECURSIVE RouterLoop(_, _, _, _, _, _)
RouterLoop(cfg_, rs, i, last_error, tried, requests) ==
    LET providers == Providers(cfg_.llm_provider)
    IN  IF i > Len(providers) THEN RouterFailure(last_error, tried, requests)
        ELSE
        LET provider == providers[i]
            key == IF provider = "claude" THEN cfg_.claude_api_key
                   ELSE cfg_.gemini_api_key
            marker == IF provider = "claude" THEN "your_claude" ELSE "your_gemini"
            rest == SubSeq(rs, Len(requests) + 1, Len(rs))
        IN  IF NotConfigured(key, marker)
            THEN RouterLoop(cfg_, rs, i + 1, last_error, tried, requests)
            ELSE
            LET r == IF provider = "claude"
                     THEN claude_generate_analysis_proposals(cfg_, rest)
                     ELSE generate_proposals_gemini(cfg_, rest)
            IN  IF r.err = "none"
                THEN Returns(r.value, Append(tried, provider),
                             requests \o r.requests)
                ELSE RouterLoop(cfg_, rs, i + 1, r.err, Append(tried, provider),
                                requests \o r.requests)

\* llm_router.generate_analysis_proposals
generate_analysis_proposals(cfg_, rs) ==
    RouterLoop(cfg_, rs, 1, NoError, <<>>, <<>>)

InitGenerate ==
    /\ df = sample_df
    /\ spec = NoProposal
    /\ pc = "idle"
    /\ call = "none"
    /\ ret = NoRet
    /\ raw = Unused
    /\ text = Unused
    /\ cfg \in Settings
    /\ replies \in Replies
    /\ log = <<>>
    /\ result = Unused
    /\ session = Unused

\* response = generate_three_proposals(question, schema, profile)
GenerateThreeProposals ==
    /\ pc = "idle"
    /\ pc' = "done"
    /\ call' = "generate_three_proposals"
    /\ result' = generate_three_proposals(cfg, replies)
    /\ log' = result'.requests
    /\ UNCHANGED <<df, spec, ret, raw, text, cfg, replies, session>>

\* proposals = claude_service.generate_analysis_proposals(...)
ClaudeGenerateAnalysisProposals ==
    /\ pc = "idle"
    /\ pc' = "done"
    /\ call' = "claude_service.generate_analysis_proposals"
    /\ result' = claude_generate_analysis_proposals(cfg, replies)
    /\ log' = result'.requests
    /\ UNCHANGED <<df, spec, ret, raw, text, cfg, replies, session>>

\* proposals = llm_router.generate_analysis_proposals(...)
GenerateAnalysisProposals ==
    /\ pc = "idle"
    /\ pc' = "done"
    /\ call' = "llm_router.generate_analysis_proposals"
    /\ result' = generate_analysis_proposals(cfg, replies)
    /\ log' = result'.requests
    /\ UNCHANGED <<df, spec, ret, raw, text, cfg, replies, session>>

NextGenerate ==
    \/ GenerateThreeProposals
    \/ ClaudeGenerateAnalysisProposals
    \/ GenerateAnalysisProposals

SpecGenerate == InitGenerate /\ [][NextGenerate]_vars

\* C12 as stated: every record a generation path returns for rendering has
\* passed the schema validation, on the generate_three_proposals path and on
\* the router's generate_analysis_proposals path.
C12_ReturnedRecordsValidated ==
    /\ (Returned("generate_three_proposals") /\ result.err = "none") =>
           \A i \in 1..Len(result.value.items) :
               validate_Proposal(model_dump(result.value.items[i])).err = "none"
    /\ (Returned("llm_router.generate_analysis_proposals") /\ result.err = "none") =>
           \A i \in 1..Len(result.value.items) :
               validate_Proposal(result.value.items[i]).err = "none"


\* The error one attempt of the given path ends with ("none": it succeeds).
AttemptError(path, reply) ==
    IF path = "generate_three_proposals" THEN ThreeAttempt(reply).err
    ELSE ClaudeAttempt(reply).err

\* The key the path needs is set, so that its retry loop runs.
LoopRuns(path) ==
    IF path = "generate_three_proposals" THEN cfg.gemini_api_key # ""
    ELSE cfg.claude_api_key # ""

\* C13 as stated: one call of generate_three_proposals or of
\* claude_service.generate_analysis_proposals makes at most llm_max_retries
\* LLM attempts, stops at the first attempt that succeeds, and when every
\* attempt fails raises an error carrying the error of the last attempt.
C13_AtMostMaxRetriesAttempts ==
    \A path \in {"generate_three_proposals",
                 "claude_service.generate_analysis_proposals"} :
        (Returned(path) /\ LoopRuns(path)) =>
            /\ Len(log) =< cfg.llm_max_retries
            /\ \A i \in 1..(Len(log) - 1) : AttemptError(path, replies[i]) # "none"
            /\ result.err = "none" =>
                   Len(log) >= 1 /\ AttemptError(path, replies[Len(log)]) = "none"
            /\ result.err # "none" =>
                   /\ \A i \in 1..Len(log) : AttemptError(path, replies[i]) # "none"
                   /\ Len(log) >= 1 =>
                          result.last_error = AttemptError(path, replies[Len(log)])

\* A provider's credential is usable: set, and not the placeholder.
Usable(provider) ==
    IF provider = "claude" THEN cfg.claude_api_key = "sk-ant-key"
    ELSE cfg.gemini_api_key = "AIza-key"

\* What calling the provider's service gives, after `used` LLM requests.
ProviderOutcome(provider, used) ==
    LET rest == SubSeq(replies, used + 1, Len(replies))
    IN  IF provider = "claude" THEN claude_generate_analysis_proposals(cfg, rest)
        ELSE generate_proposals_gemini(cfg, rest)

Primary == IF cfg.llm_provider = "claude" THEN "claude" ELSE "gemini"
Secondary == IF cfg.llm_provider = "claude" THEN "gemini" ELSE "claude"

RouterReturned == Returned("llm_router.generate_analysis_proposals")

\* The primary was called and raised (at once, or with its retries exhausted).
PrimaryFailed == Usable(Primary) /\ ProviderOutcome(Primary, 0).err # "none"

\* C14: the router calls the primary provider first, and the secondary if
\* and only if the primary raised, exhausted its retries or has a missing or
\* placeholder credential; its result is that of the first provider that
\* succeeds; a provider with a missing or placeholder credential is never
\* called and receives no LLM request.
C14_PrimaryThenSecondary ==
    RouterReturned =>
        LET first == ProviderOutcome(Primary, 0)
            second == ProviderOutcome(Secondary,
                                      IF Usable(Primary) THEN Len(first.requests)
                                      ELSE 0)
            secondTried == Usable(Secondary) /\ (~ Usable(Primary) \/ PrimaryFailed)
        IN  /\ result.tried =
                   (IF Usable(Primary) THEN <<Primary>> ELSE <<>>)
                   \o (IF secondTried THEN <<Secondary>> ELSE <<>>)
            /\ \A p \in {"claude", "gemini"} :
                   ~ Usable(p) => \A i \in 1..Len(log) : log[i] # p
            /\ \A i \in 1..Len(log) : \E j \in 1..Len(result.tried) :
                   log[i] = result.tried[j]
            /\ IF Usable(Primary) /\ first.err = "none"
               THEN result.err = "none" /\ result.value = first.value
               ELSE IF secondTried /\ second.err = "none"
               THEN result.err = "none" /\ result.value = second.value
               ELSE result.err # "none"

\* The primary exhausts its retries and the secondary answers.
C14_Witness ==
    /\ RouterReturned
    /\ cfg.llm_provider = "claude"
    /\ cfg.llm_max_retries = MaxRetries
    /\ result.tried = <<"claude", "gemini">>
    /\ Len(log) = MaxRetries + 1
    /\ result.err = "none"
    /\ result.value = [kind |-> "list", items |-> <<GoodRecord>>]

\* C15 as stated: whenever neither provider yields a result, each lacking a
\* valid credential or failing, the router fails with the error that no
\* valid API keys were found.
C15_NoValidKeysError ==
    (RouterReturned /\ result.err # "none") =>
        result.err = "No valid LLM API keys found"

\* C15: when neither provider yields a result the router raises an error:
\* the error that no valid API keys were found when no provider was called
\* (each lacks a usable credential), and otherwise "Analysis failed" with the
\* error of the provider that failed last.
C15_FailureNamesCause ==
    (RouterReturned /\ result.err # "none") =>
        IF result.tried = <<>>
        THEN /\ result.err = "No valid LLM API keys found"
             /\ ~ Usable("claude") /\ ~ Usable("gemini")
        ELSE /\ result.err = "Analysis failed"
             /\ result.last_error # NoError
             /\ \E used \in 0..Len(log) :
                    result.last_error =
                        ProviderOutcome(result.tried[Len(result.tried)], used).err

\* Both providers are called and fail.
C15_Witness ==
    /\ RouterReturned
    /\ result.tried = <<"gemini", "claude">>
    /\ cfg.llm_max_retries = MaxRetries
    /\ result.err = "Analysis failed"
    /\ result.last_error = "Failed to generate proposals"
    /\ Len(log) = MaxRetries + 1

\* ---------------------------------------------------------------- JSON parsing
\* A response text is a sequence of tokens: the fence Fence, the tag "json",
\* white space " ", a prose word "w", the brackets and the comma, the
\* scalars "1" and "2", "k" for a key with its colon ("key":), and the
\* double quote "q" that opens and closes a string.

\* Most fenced blocks of a response.
MaxBlocks == 2

\* The token of a code fence.
Fence == "fence"

\* The token of a double quote.
Quote == "q"

IsSpace(c) == c = " "

\* The index of the first token at or after i that is no white space.
RECURSIVE SkipSpace(_, _)
SkipSpace(t, i) ==
    IF i =< Len(t) /\ IsSpace(t[i]) THEN SkipSpace(t, i + 1) ELSE i

\* The JSON grammar over tokens: the index after the value that starts at i,
\* or 0 when no value starts there.
RECURSIVE ParseValue(_, _)
RECURSIVE ParseItems(_, _, _)
ParseValue(t, i) ==
    IF i > Len(t) THEN 0
    ELSE IF t[i] \in {"1", "2"} THEN i + 1
    ELSE IF t[i] = Quote
    THEN LET closes == {j \in (i + 1)..Len(t) : t[j] = Quote}
         IN  IF closes = {} THEN 0
             ELSE (CHOOSE m \in closes : \A n \in closes : m =< n) + 1
    ELSE IF t[i] \in {"[", "{"}
    THEN LET close == IF t[i] = "[" THEN "]" ELSE "}"
             j == SkipSpace(t, i + 1)
         IN  IF j =< Len(t) /\ t[j] = close THEN j + 1
             ELSE ParseItems(t, j, close)
    ELSE 0

\* The items of an array or the members of an object, up to the bracket.
ParseItems(t, i, close) ==
    LET v == IF close = "]" THEN i
             ELSE IF i =< Len(t) /\ t[i] = "k" THEN SkipSpace(t, i + 1) ELSE 0
        j == IF v = 0 THEN 0 ELSE ParseValue(t, v)
        n == IF j = 0 THEN 0 ELSE SkipSpace(t, j)
    IN  IF n = 0 \/ n > Len(t) THEN 0
        ELSE IF t[n] = close THEN n + 1
        ELSE IF t[n] = "," THEN ParseItems(t, SkipSpace(t, n + 1), close)
        ELSE 0

\* A parse's outcome: the value (its tokens without white space), or the error.
Parsed(v) == [err |-> "none", value |-> v]
ParseError(e) == [err |-> e, value |-> <<>>]

\* json.loads(s): the whole of s is one JSON value between white space.
json_loads(s) ==
    LET i == SkipSpace(s, 1)
        j == ParseValue(s, i)
    IN  IF j # 0 /\ SkipSpace(s, j) = Len(s) + 1
        THEN Parsed(SelectSeq(s, LAMBDA c : ~ IsSpace(c)))
        ELSE ParseError("JSONDecodeError")

\* The indices of t, from i on, that hold the token c.
Find(t, c, i) == {j \in i..Len(t) : t[j] = c}

Lowest(S) == CHOOSE m \in S : \A n \in S : m =< n
Highest(S) == CHOOSE m \in S : \A n \in S : m >= n

\* A match of json_pattern that starts at the fence at i: the fence, an
\* optional json tag, white space, then the group, from a [ to the nearest ]
\* (or from a { to the nearest }) that white space and a fence follow.  The
\* group is given as <<first, last>>, and <<>> says that no match starts at i.
FenceMatch(t, i) ==
    LET tag == IF i + 1 =< Len(t) /\ t[i + 1] = "json" THEN i + 2 ELSE i + 1
        p == SkipSpace(t, tag)
    IN  IF p > Len(t) \/ t[p] \notin {"[", "{"} THEN <<>>
        ELSE LET close == IF t[p] = "[" THEN "]" ELSE "}"
                 ends == {q \in Find(t, close, p + 1) :
                             LET f == SkipSpace(t, q + 1)
                             IN  f =< Len(t) /\ t[f] = Fence}
             IN  IF ends = {} THEN <<>> ELSE <<p, Lowest(ends)>>

\* re.findall(json_pattern, text, re.DOTALL)[0], or <<>> without a match.
FirstFenceMatch(t) ==
    LET starts == {i \in Find(t, Fence, 1) : FenceMatch(t, i) # <<>>}
    IN  IF starts = {} THEN <<>> ELSE FenceMatch(t, Lowest(starts))

\* The index at which the bracket count opened at start is back to 0 (the
\* loop counts the opening token of start and its closing token only), or 0.
RECURSIVE MatchBracket(_, _, _, _)
MatchBracket(t, start, i, count) ==
    IF i > Len(t) THEN 0
    ELSE LET close == IF t[start] = "[" THEN "]" ELSE "}"
             c == IF t[i] = t[start] THEN count + 1
                  ELSE IF t[i] = close THEN count - 1 ELSE count
         IN  IF t[i] = close /\ c = 0 THEN i
             ELSE MatchBracket(t, start, i + 1, c)

\* The bracket strategy taking the last closing bracket of the text.
BracketGreedy(t) ==
    LET opens == Find(t, "[", 1) \cup Find(t, "{", 1)
    IN  IF opens = {} THEN ParseError("none found")
        ELSE LET start == Lowest(opens)
                 close == IF t[start] = "[" THEN "]" ELSE "}"
                 ends == Find(t, close, start)
             IN  IF ends = {} THEN ParseError("unbalanced")
                 ELSE json_loads(SubSeq(t, start, Highest(ends)))

\* The second strategy: from the first [ or { to its matching bracket.
BracketMatched(t) ==
    LET opens == Find(t, "[", 1) \cup Find(t, "{", 1)
    IN  IF opens = {} THEN ParseError("none found")
        ELSE LET start == Lowest(opens)
                 end == MatchBracket(t, start, start, 0)
             IN  IF end = 0 THEN ParseError("unbalanced")
                 ELSE json_loads(SubSeq(t, start, end))

\* The third strategy: the whole text.
WholeText(t) ==
    IF json_loads(t).err = "none" THEN json_loads(t)
    ELSE ParseError("Could not extract valid JSON from response")

\* claude_service.extract_json_from_response(text)
extract_json_from_response(t) ==
    LET m == FirstFenceMatch(t)
        fenced == IF m = <<>> THEN ParseError("no match")
                  ELSE json_loads(SubSeq(t, m[1], m[2]))
    IN  IF fenced.err = "none" THEN fenced
        ELSE IF BracketMatched(t).err = "none" THEN BracketMatched(t)
        ELSE WholeText(t)

\* text.strip()
RECURSIVE strip(_)
strip(t) ==
    IF t # <<>> /\ IsSpace(Head(t)) THEN strip(Tail(t))
    ELSE IF t # <<>> /\ IsSpace(t[Len(t)]) THEN strip(SubSeq(t, 1, Len(t) - 1))
    ELSE t

\* json_tools.extract_json_loose(text): the whole text, else the greedy
\* match of the brace pattern, from the first { to the last } of the text.
extract_json_loose(t) ==
    LET s == strip(t)
    IN  IF json_loads(s).err = "none" THEN json_loads(s)
        ELSE LET opens == Find(s, "{", 1)
                 closes == IF opens = {} THEN {}
                           ELSE Find(s, "}", Lowest(opens) + 1)
             IN  IF closes = {} THEN ParseError("ValueError")
                 ELSE json_loads(strip(SubSeq(s, Lowest(opens), Highest(closes))))

\* JSON values an LLM puts into a fenced block.
Bodies ==
    {<<"[", "1", "]">>,
     <<"{", "k", "1", "}">>,
     <<"{", "k", "[", "2", "]", "}">>,
     <<"[", "{", "k", "1", "}", ",", " ", "{", "k", "2", "}", "]">>}

\* A fenced block: the fence, with or without the json tag, the body on
\* lines of its own, the fence.
Block(tag, body) == <<Fence>> \o tag \o <<" ">> \o body \o <<" ", Fence>>

Blocks == {Block(tag, body) : tag \in {<<>>, <<"json">>}, body \in Bodies}

\* The blocks that follow the first one: other values, of both kinds.
LaterBlocks ==
    {Block(<<"json">>, <<"[", "2", "]">>),
     Block(<<"json">>, <<"{", "k", "2", "}">>)}

Prose == {<<>>, <<"w", " ">>}

\* What follows the first block: n further blocks, each after a line of
\* prose, then nothing, prose or JSON outside of any fence.
RECURSIVE TailsOf(_)
TailsOf(n) ==
    IF n = 0 THEN Prose \cup Bodies \cup {<<"w", " ">> \o b : b \in Bodies}
    ELSE {<<"w", " ">> \o b \o rest : b \in LaterBlocks, rest \in TailsOf(n - 1)}

\* Texts without a fence: a scalar, prose, an unbalanced array, nested
\* brackets of one kind, two arrays, a stray closing bracket, a bracket of
\* the other kind inside, prose between brackets, a string holding a
\* closing bracket.
Unfenced ==
    {<<"1">>,
     <<"w">>,
     <<"[", "1">>,
     <<"[", "[", "1", "]", "]">>,
     <<"{", "k", "{", "k", "1", "}", "}", " ", "w">>,
     <<"[", "1", "]", " ", "[", "2", "]">>,
     <<"]", " ", "[", "1", "]">>,
     <<"w", " ", "{", "k", "[", "1", "]", "}", " ", "w">>,
     <<"{", "k", "[", "1", "}", "]">>,
     <<"[", "w", "]">>,
     <<"[", Quote, "]", Quote, "]">>,
     <<"{", "k", Quote, "}", Quote, "}">>}

\* Texts whose first fenced block holds no JSON.
UnusableFenced ==
    {Block(<<>>, <<"[", "w", "]">>),
     Block(<<"json">>, <<"{", "w", "}">>) \o <<" ", "[", "1", "]">>,
     <<"w", " ">> \o Block(<<"json">>, <<"[", "1", ",", "]">>)}

\* Texts without a fence, and texts of up to MaxBlocks fenced blocks.
Texts ==
    TailsOf(0) \cup Unfenced \cup UnusableFenced \cup
    UNION {{p \o b \o rest : p \in Prose, b \in Blocks, rest \in TailsOf(n - 1)} :
              n \in 1..MaxBlocks}

InitParse ==
    /\ df = sample_df
    /\ spec = NoProposal
    /\ pc = "idle"
    /\ call = "none"
    /\ ret = NoRet
    /\ raw = Unused
    /\ text \in Texts
    /\ cfg = Unused
    /\ replies = Unused
    /\ log = <<>>
    /\ result = Unused
    /\ session = Unused

\* proposals = extract_json_from_response(content)
ExtractJsonFromResponse ==
    /\ pc = "idle"
    /\ pc' = "done"
    /\ call' = "extract_json_from_response"
    /\ result' = extract_json_from_response(text)
    /\ UNCHANGED <<df, spec, ret, raw, text, cfg, replies, log, session>>

\* data = extract_json_loose(resp.text or "")
ExtractJsonLoose ==
    /\ pc = "idle"
    /\ pc' = "done"
    /\ call' = "extract_json_loose"
    /\ result' = extract_json_loose(text)
    /\ UNCHANGED <<df, spec, ret, raw, text, cfg, replies, log, session>>

NextParse == ExtractJsonFromResponse \/ ExtractJsonLoose

SpecParse == InitParse /\ [][NextParse]_vars

\* The content of the first fenced block of t: what stands between the
\* first two fences, the json tag left out.
FirstBlock(t) ==
    LET fences == Find(t, Fence, 1)
        open == Lowest(fences)
        close == Lowest(fences \ {open})
        from == IF t[open + 1] = "json" THEN open + 2 ELSE open + 1
    IN  SubSeq(t, from, close - 1)

\* t holds a fenced block, and its first fenced block holds valid JSON.
HasFencedJson(t) ==
    /\ Cardinality(Find(t, Fence, 1)) >= 2
    /\ json_loads(FirstBlock(t)).err = "none"

\* C16 as stated: for a response with one or more fenced blocks holding
\* valid JSON, extract_json_from_response and extract_json_loose both return
\* the JSON value of the first fenced block, whatever later blocks and prose
\* the response holds.
C16_FirstFencedBlock ==
    \A parser \in {"extract_json_from_response", "extract_json_loose"} :
        (Returned(parser) /\ HasFencedJson(text)) =>
            /\ result.err = "none"
            /\ result.value = json_loads(FirstBlock(text)).value

\* The first fenced match of t, parsed: usable when it is valid JSON.
FencedUsable(t) ==
    /\ FirstFenceMatch(t) # <<>>
    /\ json_loads(SubSeq(t, FirstFenceMatch(t)[1], FirstFenceMatch(t)[2])).err
           = "none"

\* The nesting depth, after position i, of the bracket that opens at start:
\* its opening tokens less its closing tokens in t[start..i].
Depth(t, start, i) ==
    LET close == IF t[start] = "[" THEN "]" ELSE "}"
    IN  Cardinality({j \in start..i : t[j] = t[start]})
            - Cardinality({j \in start..i : t[j] = close})

\* From the first [ or { of t to the first position where the depth is
\* back to zero; <<>> when there is no bracket or the depth never returns.
FirstBalanced(t) ==
    LET opens == {i \in 1..Len(t) : t[i] \in {"[", "{"}}
    IN  IF opens = {} THEN <<>>
        ELSE LET start == Lowest(opens)
                 ends == {i \in start..Len(t) : Depth(t, start, i) = 0}
             IN  IF ends = {} THEN <<>> ELSE SubSeq(t, start, Lowest(ends))

\* C25: when no fenced block is usable, extract_json_from_response parses
\* the substring from the first [ or { to the first position where the
\* depth of that bracket is back to zero; when that is no valid JSON it
\* parses the whole response; it raises the parse error only when every
\* strategy fails.
C25_BracketThenWholeText ==
    (Returned("extract_json_from_response") /\ ~ FencedUsable(text)) =>
        IF FirstBalanced(text) # <<>> /\ json_loads(FirstBalanced(text)).err = "none"
        THEN result = json_loads(FirstBalanced(text))
        ELSE IF json_loads(text).err = "none"
        THEN result = json_loads(text)
        ELSE result.err = "Could not extract valid JSON from response"

\* An array, then more text: the balanced substring is returned although
\* the whole response is no JSON.
C25_Witness ==
    /\ Returned("extract_json_from_response")
    /\ ~ FencedUsable(text)
    /\ text = <<"[", "1", "]", " ", "[", "2", "]">>
    /\ result = Parsed(<<"[", "1", "]">>)


\* ---------------------------------------------------------------- code execution
\* src/src/services/execution_service.py.  A generated snippet is described
\* by what running it does: how it treats the frame bound to df, what it
\* leaves in fig, how it ends and how long it runs.

\* Longest run of a snippet and largest wall-clock budget, in seconds.
MaxSeconds == 2

\* timeout: int = None
NoTimeout == -1

Timeouts == {NoTimeout} \cup 1..MaxSeconds

\* settings.enable_code_execution and settings.max_code_execution_time.
ExecSettings ==
    [enable_code_execution : BOOLEAN, max_code_execution_time : 1..MaxSeconds]

\* mutation: "none" leaves df alone, "inplace" is
\* df.drop(df.index, inplace=True), "rebind" is df = df.head(0).
Mutation == {"none", "inplace", "rebind"}

\* outcome: "figure" assigns a plotly figure to fig, "unassigned" leaves
\* fig = None, "not_figure" assigns fig = 42, "raises" raises a KeyError,
\* "exits" calls sys.exit() (SystemExit is no Exception), "loops" is
\* while True: pass.
Outcome == {"figure", "unassigned", "not_figure", "raises", "exits", "loops"}

Snippet ==
    [mutation : Mutation, outcome : Outcome, prints : {"", "rows"},
     seconds : 0..MaxSeconds]

\* Python values a snippet leaves in fig.
PyNone == [type |-> "NoneType", rows |-> 0]
PyInt == [type |-> "int", rows |-> 0]
\* A figure, known by the number of rows it plots.
PlotlyFigure(rows) == [type |-> "Figure", rows |-> rows]

NoRows(d) == [cols |-> d.cols, rows |-> <<>>]

\* exec(code, exec_globals) with exec_globals['df'] the caller's frame d:
\* the caller's frame afterwards, the frame the snippet plots, the binding
\* of fig, the exception raised, and whether exec comes back at all.
exec(code, d) ==
    LET frame == IF code.mutation = "inplace" THEN NoRows(d) ELSE d
        seen == IF code.mutation = "rebind" THEN NoRows(d) ELSE frame
    IN  [df |-> frame,
         fig |-> CASE code.outcome = "figure" -> PlotlyFigure(Len(seen.rows))
                   [] code.outcome = "not_figure" -> PyInt
                   [] OTHER -> PyNone,
         raised |-> CASE code.outcome = "raises" -> "KeyError"
                      [] code.outcome = "exits" -> "SystemExit"
                      [] OTHER -> "none",
         stdout |-> code.prints,
         terminates |-> code.outcome # "loops",
         seconds |-> code.seconds]

\* isinstance(e, Exception)
IsException(e) == e # "SystemExit"

DisabledError == "Code execution is disabled in settings"
NoFigError == "Code did not produce a 'fig' variable"
NotFigureError == "'fig' is not a plotly Figure"

\* What a call of execute_visualization_code comes to: the returned triple
\* (figure, stdout, error), or the exception that leaves the call (raised),
\* or no return at all (returns = FALSE, raised = "none"); with the
\* caller's frame afterwards, the budget of line 39, whether exec ran and
\* the seconds the call took.
Outcome3(fig, stdout, error, d, budget, executed, secs) ==
    [figure |-> fig, stdout |-> stdout, error |-> error, raised |-> "none",
     returns |-> TRUE, df |-> d, timeout |-> budget, executed |-> executed,
     elapsed |-> secs]

\* The toggle never consulted.
AlwaysEnabled(settings) == TRUE

\* settings.enable_code_execution, as line 41 reads it.
Enabled(settings) == settings.enable_code_execution

execute_visualization_code(code, d, timeout, settings) ==
    LET budget == IF timeout = NoTimeout
                  THEN settings.max_code_execution_time ELSE timeout
    IN  IF ~Enabled(settings)
        THEN Outcome3(PyNone, None, DisabledError, d, budget, FALSE, 0)
        ELSE
            LET run == exec(code, d)
            IN  IF ~run.terminates
                THEN [Outcome3(PyNone, None, None, run.df, budget, TRUE,
                               run.seconds)
                        EXCEPT !.returns = FALSE]
                ELSE IF run.raised # "none"
                THEN IF IsException(run.raised)
                     THEN Outcome3(PyNone, run.stdout, run.raised, run.df,
                                   budget, TRUE, run.seconds)
                     ELSE [Outcome3(PyNone, None, None, run.df, budget, TRUE,
                                    run.seconds)
                             EXCEPT !.raised = run.raised, !.returns = FALSE]
                ELSE IF run.fig = PyNone
                THEN Outcome3(PyNone, run.stdout, NoFigError, run.df, budget,
                              TRUE, run.seconds)
                ELSE IF run.fig.type # "Figure"
                THEN Outcome3(PyNone, run.stdout, NotFigureError, run.df,
                              budget, TRUE, run.seconds)
                ELSE Outcome3(run.fig, run.stdout, None, run.df, budget, TRUE,
                              run.seconds)

InitExecute ==
    /\ df = sample_df
    /\ spec \in Snippet
    /\ pc = "idle"
    /\ call = "none"
    /\ ret = NoRet
    /\ raw = Unused
    /\ text = Unused
    /\ cfg \in ExecSettings
    /\ replies = Unused
    /\ log = <<>>
    /\ result = Unused
    /\ session = Unused

\* fig, stdout, error = execute_visualization_code(code, df, timeout); log
\* holds the snippets handed to exec, pc = "running" is a call that never
\* comes back.
ExecuteVisualizationCode ==
    /\ pc = "idle"
    /\ call' = "execute_visualization_code"
    /\ \E timeout \in Timeouts :
           result' = execute_visualization_code(spec, df, timeout, cfg)
    /\ df' = result'.df
    /\ log' = IF result'.executed THEN Append(log, spec) ELSE log
    /\ pc' = IF result'.returns \/ result'.raised # "none"
             THEN "done" ELSE "running"
    /\ UNCHANGED <<spec, ret, raw, text, cfg, replies, session>>

NextExecute == ExecuteVisualizationCode

SpecExecute == InitExecute /\ [][NextExecute]_vars

\* C21: execute_visualization_code never lets a failure of the snippet
\* reach its caller: every call returns a triple (figure, stdout, error) in
\* which exactly one of figure and error is not None, the error being set
\* when the snippet raises, leaves fig unassigned or assigns a non-figure.
C21_AlwaysReturnsTriple ==
    call = "execute_visualization_code" =>
        /\ pc = "done"
        /\ result.raised = "none"
        /\ result.returns
        /\ (result.figure = PyNone) # (result.error = None)
        /\ (cfg.enable_code_execution /\ spec.outcome # "figure")
               => result.error # None

\* C24: with enable_code_execution off, no part of the snippet is executed
\* and the call returns no figure and the error saying execution is
\* disabled.
C24_DisabledExecutesNothing ==
    (call = "execute_visualization_code" /\ ~cfg.enable_code_execution) =>
        /\ pc = "done"
        /\ result.returns
        /\ result.figure = PyNone
        /\ result.error = DisabledError
        /\ df = sample_df
        /\ log = <<>>

C24_Witness ==
    /\ Returned("execute_visualization_code")
    /\ ~cfg.enable_code_execution
    /\ spec.mutation = "inplace"
    /\ spec.outcome = "exits"

\* C28: a snippet that runs longer than the wall-clock budget is stopped
\* and reported as an execution error, so that every call returns, also
\* for a snippet that never terminates.
C28_OverBudgetStopped ==
    (call = "execute_visualization_code" /\ cfg.enable_code_execution) =>
        /\ pc = "done"
        /\ (spec.seconds > result.timeout \/ spec.outcome = "loops") =>
               /\ result.returns
               /\ result.figure = PyNone
               /\ result.error # None
               /\ result.elapsed <= result.timeout


\* ---------------------------------------------------------------- configuration
\* src/src/config.py, get_config_value.  A store is a function from the keys
\* it holds to their values; the secrets store may be unreadable (streamlit
\* not importable, no secrets file), which raises inside the try block.

ConfigKeys == {"LLM_PROVIDER", "ENABLE_CODE_EXECUTION"}

StoresOf(values) ==
    UNION {[ks -> values] : ks \in SUBSET ConfigKeys}

SecretsStores ==
    {[available |-> FALSE, store |-> NoKeys]}
        \cup {[available |-> TRUE, store |-> s] :
                 s \in StoresOf({"from-secrets", ""})}

Environs == StoresOf({"from-env", ""})

ConfigDefault == "from-default"

\* os.getenv(key) first, the secrets store second.
get_config_value_env_first(key, default, secrets, environ) ==
    IF Has(environ, key) THEN environ[key]
    ELSE IF secrets.available /\ Has(secrets.store, key)
    THEN secrets.store[key]
    ELSE default

get_config_value(key, default, secrets, environ) ==
    IF secrets.available /\ Has(secrets.store, key)
    THEN secrets.store[key]
    ELSE IF Has(environ, key) THEN environ[key]
    ELSE default

InitConfig ==
    /\ df = sample_df
    /\ spec = NoProposal
    /\ pc = "idle"
    /\ call = "none"
    /\ ret = NoRet
    /\ raw \in ConfigKeys
    /\ text = Unused
    /\ cfg \in [secrets : SecretsStores, environ : Environs]
    /\ replies = Unused
    /\ log = <<>>
    /\ result = Unused
    /\ session = Unused

\* value = get_config_value(key, default): raw is the key, cfg the two stores.
GetConfigValue ==
    /\ pc = "idle"
    /\ pc' = "done"
    /\ call' = "get_config_value"
    /\ result' = get_config_value(raw, ConfigDefault, cfg.secrets, cfg.environ)
    /\ UNCHANGED <<df, spec, ret, raw, text, cfg, replies, log, session>>

NextConfig == GetConfigValue

SpecConfig == InitConfig /\ [][NextConfig]_vars

InSecrets == cfg.secrets.available /\ raw \in DOMAIN cfg.secrets.store

InEnviron == raw \in DOMAIN cfg.environ

\* C23: get_config_value returns the value of the secrets store when the
\* key is present there, otherwise the environment variable when it is
\* set, otherwise the default; a lower-priority source never overrides a
\* higher one.
C23_FirstSourceWins ==
    Returned("get_config_value") =>
        /\ InSecrets => result = cfg.secrets.store[raw]
        /\ (~InSecrets /\ InEnviron) => result = cfg.environ[raw]
        /\ (~InSecrets /\ ~InEnviron) => result = ConfigDefault

C23_Witness ==
    /\ Returned("get_config_value")
    /\ InSecrets
    /\ InEnviron
    /\ cfg.secrets.store[raw] # cfg.environ[raw]
    /\ result = "from-secrets"


\* ---------------------------------------------------------------- rendering and export
\* The render loop of src/app.py (lines 495-536), its report button (lines
\* 538-566), create_dashboard_html of src/src/services/export_service.py
\* and get_html_dashboard of src/src/controller.py.

\* Most proposals of one list.
MaxProposals == 2

\* The snippets the render loop is run on.
RenderSnippets ==
    {c \in Snippet :
        c.mutation # "rebind" /\ c.prints = "" /\ c.seconds = 0}

TitleOf(i) == CASE i = 1 -> "T1" [] i = 2 -> "T2" [] i = 3 -> "T3" [] OTHER -> "T"
InterpretationOf(i) ==
    CASE i = 1 -> "I1" [] i = 2 -> "I2" [] i = 3 -> "I3" [] OTHER -> "I"
RecommendationsOf(i) ==
    CASE i = 1 -> "R1" [] i = 2 -> "R2" [] i = 3 -> "R3" [] OTHER -> "R"

\* The record of one proposal as the app reads it: prop['title'],
\* prop['code'], prop['interpretation'], prop['recommendations']; source
\* names the dataset whose schema and sample the LLM was given.
AppProposal(i, code, source) ==
    [title |-> TitleOf(i), code |-> code,
     interpretation |-> InterpretationOf(i),
     recommendations |-> RecommendationsOf(i), source |-> source]

AppProposalLists ==
    {[i \in 1..Len(cs) |-> AppProposal(i, cs[i], "movies")] :
        cs \in SeqsUpTo(RenderSnippets, MaxProposals)}

\* Typed proposals for get_html_dashboard: one that builds, one naming a
\* column the table does not have, one heatmap without x.
DashboardProposals ==
    {[Proposal("bar", "genre", "revenue", None, "sum", <<>>, DefaultFormatting)
         EXCEPT !.title = "Bar"],
     [Proposal("scatter", "budget", "revenue", None, "none", <<>>,
               DefaultFormatting) EXCEPT !.title = "Missing"],
     [Proposal("heatmap", "", "revenue", None, "none", <<>>, DefaultFormatting)
         EXCEPT !.title = "Heat"]}

DashboardProposalLists == SeqsUpTo(DashboardProposals, MaxProposals)

\* The parameters of create_dashboard_html, in order; all but dataset_name
\* are required.
DashboardParams ==
    <<"figures", "titles", "interpretations", "recommendations", "question",
      "dataset_name">>

RequiredParams == {DashboardParams[i] : i \in 1..5}

\* Positional arguments bound to the parameters, left to right.
BindPositional(args) ==
    [k \in {DashboardParams[i] : i \in 1..Len(args)} |->
        args[CHOOSE i \in 1..Len(args) : DashboardParams[i] = k]]

NoHtml == [err |-> "none", exported |-> FALSE, blocks |-> <<>>]

\* create_dashboard_html: one analysis block per element of
\* zip(figures, titles, interpretations, recommendations).
create_dashboard_html(args) ==
    IF ~(RequiredParams \subseteq DOMAIN args)
    THEN [err |-> "TypeError", exported |-> FALSE, blocks |-> <<>>]
    ELSE LET n == Min(Min(Len(args.figures), Len(args.titles)),
                      Min(Len(args.interpretations), Len(args.recommendations)))
         IN  [err |-> "none", exported |-> TRUE,
              blocks |-> [i \in 1..n |->
                            [n |-> i,
                             title |-> args.titles[i],
                             chart |-> args.figures[i],
                             plotlyjs |-> i = 1,
                             interpretation |-> args.interpretations[i],
                             recommendations |-> args.recommendations[i]]]]

\* The page of one script run: the successful_* lists, the errors shown,
\* the proposals whose card is shown, the session frame afterwards, the exception that ended the run, whether
\* the run hangs in a snippet, and the report.
NoPage(d) ==
    [figures |-> <<>>, titles |-> <<>>, interps |-> <<>>, recs |-> <<>>,
     errors |-> <<>>, shown |-> <<>>, df |-> d, aborted |-> "none",
     hangs |-> FALSE, html |-> NoHtml]

\* for i, prop in enumerate(proposals): the loop from proposal i on.
RECURSIVE RenderFrom(_, _, _, _)
RenderFrom(props, i, settings, page) ==
    IF i > Len(props) THEN page
    ELSE
        LET prop == props[i]
            r == execute_visualization_code(prop.code, page.df, NoTimeout,
                                            settings)
            shown == [page EXCEPT !.shown = Append(@, prop), !.df = r.df]
        IN  IF ~r.returns
            THEN IF r.raised # "none"
                 THEN [shown EXCEPT !.aborted = r.raised]
                 ELSE [shown EXCEPT !.hangs = TRUE]
            ELSE IF r.error \notin {None, ""}
            THEN RenderFrom(props, i + 1, settings,
                            [shown EXCEPT !.errors = Append(@, r.error)])
            ELSE IF r.figure # PyNone
            THEN RenderFrom(props, i + 1, settings,
                            [shown EXCEPT
                                !.figures = Append(@, r.figure),
                                !.titles = Append(@, prop.title),
                                !.interps = Append(@, prop.interpretation),
                                !.recs = Append(@, prop.recommendations)])
            ELSE RenderFrom(props, i + 1, settings, shown)

RenderProposals(props, d, settings) == RenderFrom(props, 1, settings, NoPage(d))

\* The report button of line 546, offered when successful_figures is not
\* empty.
ReportOf(page) ==
    create_dashboard_html(
        [figures |-> page.figures, titles |-> page.titles,
         interpretations |-> page.interps, recommendations |-> page.recs,
         question |-> "General Data Analysis", dataset_name |-> "movies"])

\* controller.get_html_dashboard: build_figure per proposal, failures
\* skipped, then create_dashboard_html(figures, titles, question,
\* dataset_name).
RECURSIVE BuiltFrom(_, _, _, _)
BuiltFrom(d, proposals, i, acc) ==
    IF i > Len(proposals) THEN acc
    ELSE LET r == build_figure(d, proposals[i])
         IN  IF r.err = "none"
             THEN BuiltFrom(d, proposals, i + 1,
                      [figures |-> Append(acc.figures, r.fig),
                       titles |-> Append(acc.titles,
                                    <<proposals[i].title,
                                      proposals[i].chart_type>>)])
             ELSE BuiltFrom(d, proposals, i + 1, acc)

get_html_dashboard(d, proposals, question, dataset_name) ==
    LET built == BuiltFrom(d, proposals, 1, [figures |-> <<>>, titles |-> <<>>])
    IN  create_dashboard_html(
            BindPositional(<<built.figures, built.titles, question,
                             dataset_name>>))

InitRender ==
    /\ df = sample_df
    /\ spec \in DashboardProposalLists
    /\ pc = "idle"
    /\ call = "none"
    /\ ret = NoRet
    /\ raw \in AppProposalLists
    /\ (spec = <<>> \/ raw = <<>>)
    /\ text = Unused
    /\ cfg \in {s \in ExecSettings : s.max_code_execution_time = 1}
    /\ replies = Unused
    /\ log = <<>>
    /\ result = NoPage(sample_df)
    /\ session = Unused

PcAfter(page) ==
    IF page.hangs THEN "running"
    ELSE IF page.aborted # "none" THEN "done" ELSE "rendered"

\* One run of the render section over the proposals raw.
RenderLoop ==
    /\ pc = "idle"
    /\ raw # <<>>
    /\ call' = "render"
    /\ result' = RenderProposals(raw, df, cfg)
    /\ df' = result'.df
    /\ pc' = PcAfter(result')
    /\ UNCHANGED <<spec, ret, raw, text, cfg, replies, log, session>>

\* The run started by pressing "Generate Full HTML Report": the render
\* loop again, then the report.
GenerateFullHtmlReport ==
    /\ pc = "rendered"
    /\ result.figures # <<>>
    /\ call' = "report"
    /\ LET page == RenderProposals(raw, df, cfg)
       IN  /\ result' = IF PcAfter(page) = "rendered" /\ page.figures # <<>>
                        THEN [page EXCEPT !.html = ReportOf(page)]
                        ELSE page
           /\ df' = page.df
           /\ pc' = IF PcAfter(page) = "rendered" THEN "done" ELSE PcAfter(page)
    /\ UNCHANGED <<spec, ret, raw, text, cfg, replies, log, session>>

\* html = get_html_dashboard(df, proposals, question, dataset_name)
GetHtmlDashboard ==
    /\ pc = "idle"
    /\ raw = <<>>
    /\ pc' = "done"
    /\ call' = "get_html_dashboard"
    /\ result' = [NoPage(df) EXCEPT
                     !.html = get_html_dashboard(df, spec, "q", "movies")]
    /\ UNCHANGED <<df, spec, ret, raw, text, cfg, replies, log, session>>

NextRender == RenderLoop \/ GenerateFullHtmlReport \/ GetHtmlDashboard

SpecRender == InitRender /\ [][NextRender]_vars

\* The proposals of the app list whose own snippet yields a figure.
RendersAlone(prop) ==
    cfg.enable_code_execution /\ prop.code.outcome = "figure"

\* The typed proposals build_figure accepts on the sample table.
Builds(p) == p.title = "Bar"

BlockOfProposal(b, prop) ==
    /\ b.title = prop.title
    /\ b.interpretation = prop.interpretation
    /\ b.recommendations = prop.recommendations

\* C22: a failure while rendering one proposal prevents neither the
\* rendering of the others nor the export, and the exported document holds
\* one chart block per successfully rendered proposal, in proposal order,
\* each with that proposal's title, interpretation and recommendations;
\* in the render loop of the app and in controller.get_html_dashboard.
C22_IsolatedRenderingAndExport ==
    /\ call = "render" =>
           /\ pc = "rendered"
           /\ result.titles =
                  [i \in 1..Len(SelectSeq(raw, RendersAlone)) |->
                      SelectSeq(raw, RendersAlone)[i].title]
    /\ (call = "report" /\ pc = "done") =>
           /\ result.html.err = "none"
           /\ Len(result.html.blocks) = Len(SelectSeq(raw, RendersAlone))
           /\ \A i \in 1..Len(result.html.blocks) :
                  BlockOfProposal(result.html.blocks[i],
                                  SelectSeq(raw, RendersAlone)[i])
    /\ Returned("get_html_dashboard") =>
           /\ result.html.err = "none"
           /\ result.html.exported
           /\ Len(result.html.blocks) = Len(SelectSeq(spec, Builds))


\* ---------------------------------------------------------------- filter order
\* The filter lists that hold the filters of fs in another order.
Reorderings(fs) ==
    {[i \in 1..Len(fs) |-> fs[p[i]]] : p \in Permutations(1..Len(fs))}

\* What apply_filters gives for the proposal with its filters in order fs.
FilteredIn(fs) == TableRet(apply_filters(df, [spec EXCEPT !.filters = fs]))

\* C26 as stated: the order of the filters does not change the outcome:
\* for every table and every permutation of the filter list, apply_filters
\* returns the same rows in the same order.
C26_FilterOrderIrrelevant ==
    Returned("apply_filters") =>
        \A fs \in Reorderings(spec.filters) :
            ret.err = "none" =>
                /\ FilteredIn(fs).err = "none"
                /\ FilteredIn(fs).data = ret.data


\* ---------------------------------------------------------------- router result
\* C29: whichever provider serves the request, what the router's
\* generate_analysis_proposals returns is a list of proposal records that
\* is not empty: a response that parses to an object, to an empty list or
\* to any value that is no list counts as a failed attempt.
C29_RouterReturnsNonEmptyList ==
    (RouterReturned /\ result.err = "none") =>
        /\ result.value.kind = "list"
        /\ result.value.items # <<>>


\* ---------------------------------------------------------------- session
\* src/app.py as a whole: st.session_state and the script runs that user
\* interactions start.  Every run goes through the data source section
\* (lines 306-375), the analysis button (lines 460-487) and the render
\* section (lines 490-536).

DatasetNames == {"movies", "sales"}

\* prepare_dataset(...): the DatasetInfo of a source, with its frame.
Loaded(name) ==
    [name |-> name,
     df |-> IF name = "movies" THEN sample_df
            ELSE [cols |-> Columns, rows |-> SubSeq(sample_df.rows, 1, 1)]]

\* st.session_state.dataset_info = None
NoDataset == [name |-> None, df |-> NoTable]

\* Lines 22-29.
NewSession ==
    [dataset_info |-> NoDataset, analysis_results |-> <<>>,
     analysis_requested |-> FALSE, analysis_proposals |-> <<>>]

\* The snippets of the proposals an LLM answers with: one that plots, one
\* that drops the rows of df in place and plots, one that raises.
SessionSnippets ==
    {c \in RenderSnippets :
        \/ c.outcome = "figure"
        \/ c.outcome = "raises" /\ c.mutation = "none"}

\* What generate_analysis_proposals returns for the dataset named source.
ProposalsFor(source) ==
    {[i \in 1..Len(cs) |-> AppProposal(i, cs[i], source)] :
        cs \in SeqsUpTo(SessionSnippets, MaxProposals) \ {<<>>}}

\* The data source section: a load that succeeds stores the DatasetInfo, a
\* load that fails ("fails") or no load ("none") leaves the session alone.
AfterLoad(s, load) ==
    IF load \in DatasetNames
    THEN [s EXCEPT !.dataset_info = Loaded(load)] ELSE s

\* The analysis button: proposals <<>> stands for a router call that
\* raised (line 486), pressed = FALSE for a run without the button.
AfterGenerate(s, pressed, proposals) ==
    IF pressed /\ proposals # <<>>
    THEN [s EXCEPT !.analysis_proposals = proposals,
                   !.analysis_requested = TRUE]
    ELSE s

\* The render section: the loop runs on st.session_state.analysis_proposals
\* with the frame of st.session_state.dataset_info, the very object the
\* session holds.
RenderSection(s, settings) ==
    IF s.dataset_info # NoDataset /\ s.analysis_requested
           /\ s.analysis_proposals # <<>>
    THEN RenderProposals(s.analysis_proposals, s.dataset_info.df, settings)
    ELSE NoPage(s.dataset_info.df)

\* One run of the script.
RunScript(load, pressed, proposals) ==
    LET s1 == AfterLoad(session, load)
        s2 == IF s1.dataset_info = NoDataset THEN s1
              ELSE AfterGenerate(s1, pressed, proposals)
        page == RenderSection(s2, cfg)
    IN  /\ result' = page
        /\ session' = [s2 EXCEPT !.dataset_info.df = page.df]
        /\ pc' = "done"
        /\ UNCHANGED <<df, spec, ret, raw, text, cfg, replies, log>>

InitSession ==
    /\ df = sample_df
    /\ spec = NoProposal
    /\ pc = "idle"
    /\ call = "none"
    /\ ret = NoRet
    /\ raw = Unused
    /\ text = Unused
    /\ cfg \in {s \in ExecSettings : s.max_code_execution_time = 1}
    /\ replies = Unused
    /\ log = <<>>
    /\ result = NoPage(NoTable)
    /\ session = NewSession

\* The run in which a dataset is loaded, or fails to load.
LoadDataset ==
    /\ call' = "load_dataset"
    /\ \E load \in DatasetNames \cup {"fails"} :
           RunScript(load, FALSE, <<>>)

\* The run started by "Generate Comprehensive Analysis", offered once a
\* dataset is loaded; the router returns proposals for that dataset or
\* raises.
GenerateAnalysis ==
    /\ session.dataset_info # NoDataset
    /\ call' = "generate_analysis"
    /\ \E proposals \in ProposalsFor(session.dataset_info.name) \cup {<<>>} :
           RunScript("none", TRUE, proposals)

\* A run started by any other widget: the page is rendered again.
Rerun ==
    /\ call' = "rerun"
    /\ RunScript("none", FALSE, <<>>)

NextSession == LoadDataset \/ GenerateAnalysis \/ Rerun

SpecSession == InitSession /\ [][NextSession]_vars

\* C27: executing generated snippets never changes the session's table:
\* after any sequence of execute_visualization_code calls in the render
\* loop the session table equals the table as loaded.
C27_SessionTableUnchanged ==
    session.dataset_info # NoDataset =>
        session.dataset_info.df = Loaded(session.dataset_info.name).df

\* C30: in every session state reached by load, generate and render
\* actions, the proposals that are rendered were generated from the dataset
\* that is loaded: loading a different dataset discards the proposals of
\* the previous one.
C30_ProposalsOfLoadedDataset ==
    /\ \A i \in 1..Len(result.shown) :
           result.shown[i].source = session.dataset_info.name
    /\ \A i \in 1..Len(session.analysis_proposals) :
           session.analysis_proposals[i].source = session.dataset_info.name

====
